---- MODULE Spec2Model ----
(***************************************************************************)
(* Model of the squash tracker's rating engine and match store:            *)
(* src/src/models/squash.py (Player, Session, Match) and the request       *)
(* handlers of src/src/routes/squash.py.  One action per HTTP handler; a   *)
(* handler's action covers the whole request, from the first query to the  *)
(* commit, rollback or early return.                                        *)
(*                                                                         *)
(* The SQLAlchemy session is modelled as a working copy of the committed   *)
(* rows: a handler edits the working copy, db.session.commit() makes it    *)
(* the committed state, db.session.rollback() and a return without commit  *)
(* (the scoped session is removed when the request ends) drop it.          *)
(***************************************************************************)
EXTENDS Integers, Sequences, FiniteSets, TLC

----------------------------------------------------------------------------
(* Bounds of the model *)

\* number of requests in a behaviour
MaxTime == 4
\* player rows that can exist (the four default players plus created ones)
MaxPlayers == 5
\* sessions and matches ever created (primary keys are never reused)
MaxSessions == 2
MaxMatches == 3
\* the scores a request can carry
Scores == {0, 9, 11}
\* the largest score passed to a direct call of calculate_elo_changes
MaxScore == 11
\* the ratings passed to a direct call of calculate_elo_changes
CalcRatings == {900, 1000, 1100}
\* the completed matches of a database served by GET /highlights alone
MaxRecent == 11
\* the largest match_counter a direct call of trigger_match_backup starts from
MaxCounter == 11
\* the session player lists a POST /sessions request can carry
\* (players 1..4 exist from the start, player 9 never exists)
PlayerIdsInputs == {<<1>>, <<1, 2>>, <<1, 1>>, <<1, 9>>, <<1, 2, 3>>}
\* the player ids a DELETE /players/{id} request can name
PlayerIdInputs == {1, 9}

----------------------------------------------------------------------------
(* Nullable columns: None is <<>>, a value v is <<v>> *)

None == <<>>

Some(v) == <<v>>

Val(x) == x[1]

(* JSON values of a request body: a key is absent, null, a non-integer    *)
(* (string or float), or an integer                                        *)

Absent == [kind |-> "absent", v |-> 0]

JNull == [kind |-> "null", v |-> 0]

JStr == [kind |-> "str", v |-> 0]

JInt(n) == [kind |-> "int", v |-> n]

\* 'key' in data
HasKey(j) == j.kind # "absent"

\* data.get('key') is not None
NotNone(j) == j.kind \notin {"absent", "null"}

\* isinstance(value, int)
IsInt(j) == j.kind = "int"

----------------------------------------------------------------------------
(* models/squash.py: Match.calculate_elo_changes *)

K == 32

\* The floating-point values are carried as integers scaled by Scale.
Scale == 100000

\* Expected1Table[d + 401] = round(Scale / (1 + 10 ** (d / 400))) for the
\* rating gap d = elo2 - elo1 in -400..400
Expected1Table ==
  <<
    90909, 90861, 90813, 90765, 90717, 90668, 90620, 90571, 90521, 90472, 90422, 90372,
    90322, 90271, 90221, 90170, 90119, 90067, 90016, 89964, 89912, 89859, 89807, 89754,
    89701, 89648, 89594, 89540, 89486, 89432, 89377, 89323, 89268, 89212, 89157, 89101,
    89045, 88989, 88932, 88875, 88818, 88761, 88704, 88646, 88588, 88529, 88471, 88412,
    88353, 88293, 88234, 88174, 88114, 88053, 87993, 87932, 87870, 87809, 87747, 87685,
    87623, 87560, 87498, 87434, 87371, 87307, 87243, 87179, 87115, 87050, 86985, 86920,
    86854, 86788, 86722, 86656, 86589, 86522, 86455, 86387, 86319, 86251, 86183, 86114,
    86045, 85976, 85906, 85836, 85766, 85696, 85625, 85554, 85483, 85411, 85339, 85267,
    85195, 85122, 85049, 84976, 84902, 84828, 84754, 84679, 84605, 84529, 84454, 84378,
    84302, 84226, 84149, 84072, 83995, 83918, 83840, 83762, 83683, 83604, 83525, 83446,
    83366, 83286, 83206, 83125, 83044, 82963, 82882, 82800, 82718, 82635, 82553, 82470,
    82386, 82302, 82218, 82134, 82050, 81965, 81879, 81794, 81708, 81622, 81535, 81448,
    81361, 81274, 81186, 81098, 81010, 80921, 80832, 80742, 80653, 80563, 80472, 80382,
    80291, 80200, 80108, 80016, 79924, 79831, 79739, 79645, 79552, 79458, 79364, 79270,
    79175, 79080, 78984, 78889, 78793, 78696, 78600, 78503, 78405, 78308, 78210, 78112,
    78013, 77914, 77815, 77715, 77615, 77515, 77415, 77314, 77213, 77111, 77010, 76908,
    76805, 76702, 76599, 76496, 76392, 76288, 76184, 76080, 75975, 75869, 75764, 75658,
    75552, 75445, 75339, 75231, 75124, 75016, 74908, 74800, 74691, 74582, 74473, 74363,
    74254, 74143, 74033, 73922, 73811, 73699, 73588, 73476, 73363, 73251, 73138, 73025,
    72911, 72797, 72683, 72569, 72454, 72339, 72223, 72108, 71992, 71876, 71759, 71642,
    71525, 71408, 71290, 71172, 71054, 70935, 70817, 70698, 70578, 70458, 70339, 70218,
    70098, 69977, 69856, 69735, 69613, 69491, 69369, 69246, 69124, 69001, 68877, 68754,
    68630, 68506, 68382, 68257, 68132, 68007, 67882, 67756, 67630, 67504, 67378, 67251,
    67124, 66997, 66869, 66742, 66614, 66486, 66357, 66229, 66100, 65971, 65841, 65712,
    65582, 65452, 65322, 65191, 65060, 64929, 64798, 64667, 64535, 64403, 64271, 64139,
    64006, 63874, 63741, 63608, 63474, 63341, 63207, 63073, 62939, 62804, 62670, 62535,
    62400, 62265, 62130, 61994, 61858, 61723, 61586, 61450, 61314, 61177, 61040, 60903,
    60766, 60629, 60491, 60354, 60216, 60078, 59940, 59801, 59663, 59524, 59386, 59247,
    59108, 58968, 58829, 58690, 58550, 58410, 58270, 58130, 57990, 57850, 57709, 57569,
    57428, 57287, 57146, 57005, 56864, 56723, 56582, 56440, 56298, 56157, 56015, 55873,
    55731, 55589, 55447, 55305, 55162, 55020, 54877, 54735, 54592, 54449, 54307, 54164,
    54021, 53878, 53735, 53592, 53448, 53305, 53162, 53018, 52875, 52732, 52588, 52445,
    52301, 52157, 52014, 51870, 51726, 51582, 51439, 51295, 51151, 51007, 50863, 50720,
    50576, 50432, 50288, 50144, 50000, 49856, 49712, 49568, 49424, 49280, 49137, 48993,
    48849, 48705, 48561, 48418, 48274, 48130, 47986, 47843, 47699, 47555, 47412, 47268,
    47125, 46982, 46838, 46695, 46552, 46408, 46265, 46122, 45979, 45836, 45693, 45551,
    45408, 45265, 45123, 44980, 44838, 44695, 44553, 44411, 44269, 44127, 43985, 43843,
    43702, 43560, 43418, 43277, 43136, 42995, 42854, 42713, 42572, 42431, 42291, 42150,
    42010, 41870, 41730, 41590, 41450, 41310, 41171, 41032, 40892, 40753, 40614, 40476,
    40337, 40199, 40060, 39922, 39784, 39646, 39509, 39371, 39234, 39097, 38960, 38823,
    38686, 38550, 38414, 38277, 38142, 38006, 37870, 37735, 37600, 37465, 37330, 37196,
    37061, 36927, 36793, 36659, 36526, 36392, 36259, 36126, 35994, 35861, 35729, 35597,
    35465, 35333, 35202, 35071, 34940, 34809, 34678, 34548, 34418, 34288, 34159, 34029,
    33900, 33771, 33643, 33514, 33386, 33258, 33131, 33003, 32876, 32749, 32622, 32496,
    32370, 32244, 32118, 31993, 31868, 31743, 31618, 31494, 31370, 31246, 31123, 30999,
    30876, 30754, 30631, 30509, 30387, 30265, 30144, 30023, 29902, 29782, 29661, 29542,
    29422, 29302, 29183, 29065, 28946, 28828, 28710, 28592, 28475, 28358, 28241, 28124,
    28008, 27892, 27777, 27661, 27546, 27431, 27317, 27203, 27089, 26975, 26862, 26749,
    26637, 26524, 26412, 26301, 26189, 26078, 25967, 25857, 25746, 25637, 25527, 25418,
    25309, 25200, 25092, 24984, 24876, 24769, 24661, 24555, 24448, 24342, 24236, 24131,
    24025, 23920, 23816, 23712, 23608, 23504, 23401, 23298, 23195, 23092, 22990, 22889,
    22787, 22686, 22585, 22485, 22385, 22285, 22185, 22086, 21987, 21888, 21790, 21692,
    21595, 21497, 21400, 21304, 21207, 21111, 21016, 20920, 20825, 20730, 20636, 20542,
    20448, 20355, 20261, 20169, 20076, 19984, 19892, 19800, 19709, 19618, 19528, 19437,
    19347, 19258, 19168, 19079, 18990, 18902, 18814, 18726, 18639, 18552, 18465, 18378,
    18292, 18206, 18121, 18035, 17950, 17866, 17782, 17698, 17614, 17530, 17447, 17365,
    17282, 17200, 17118, 17037, 16956, 16875, 16794, 16714, 16634, 16554, 16475, 16396,
    16317, 16238, 16160, 16082, 16005, 15928, 15851, 15774, 15698, 15622, 15546, 15471,
    15395, 15321, 15246, 15172, 15098, 15024, 14951, 14878, 14805, 14733, 14661, 14589,
    14517, 14446, 14375, 14304, 14234, 14164, 14094, 14024, 13955, 13886, 13817, 13749,
    13681, 13613, 13545, 13478, 13411, 13344, 13278, 13212, 13146, 13080, 13015, 12950,
    12885, 12821, 12757, 12693, 12629, 12566, 12502, 12440, 12377, 12315, 12253, 12191,
    12130, 12068, 12007, 11947, 11886, 11826, 11766, 11707, 11647, 11588, 11529, 11471,
    11412, 11354, 11296, 11239, 11182, 11125, 11068, 11011, 10955, 10899, 10843, 10788,
    10732, 10677, 10623, 10568, 10514, 10460, 10406, 10352, 10299, 10246, 10193, 10141,
    10088, 10036, 9984, 9933, 9881, 9830, 9779, 9729, 9678, 9628, 9578, 9528,
    9479, 9429, 9380, 9332, 9283, 9235, 9187, 9139, 9091
  >>

\* expected1 = 1 / (1 + 10 ** ((elo2 - elo1) / 400)), scaled
Expected1(elo1, elo2) == Expected1Table[(elo2 - elo1) + 401]

Abs(x) == IF x < 0 THEN -x ELSE x

Max(a, b) == IF a > b THEN a ELSE b

\* floor division, the bug int() would have if it rounded down
FloorDiv(num, den) == num \div den

\* int(num / den): truncation toward zero (den > 0)
TruncDiv(num, den) == IF num >= 0 THEN num \div den ELSE -((-num) \div den)

\* the two performances, had a match without points counted as 0 for both
ActualZeroWithoutPoints(score1, score2) ==
  LET total_points == score1 + score2
  IN  IF total_points = 0 THEN <<0, 0, 1>>
      ELSE <<score1, score2, total_points>>

\* the two performances, had they been assigned the other way round
ActualSwapped(score1, score2) ==
  LET total_points == score1 + score2
  IN  IF total_points = 0 THEN <<1, 1, 2>>
      ELSE <<score2, score1, total_points>>

\* actual1, actual2 as fractions <<numerator1, numerator2, denominator>>
Actual(score1, score2) ==
  LET total_points == score1 + score2
  IN  IF total_points = 0 THEN <<1, 1, 2>>
      ELSE <<score1, score2, total_points>>

\* the multiplier, had it been scaled from 1.0 instead of 0.5
DiffMultiplierFromOne(score1, score2) ==
  LET point_diff == Abs(score1 - score2)
      max_possible_diff == Max(score1, score2)
  IN  IF max_possible_diff = 0 THEN <<1, 1>>
      ELSE <<max_possible_diff + point_diff, max_possible_diff>>

\* diff_multiplier as a fraction <<numerator, denominator>>
DiffMultiplier(score1, score2) ==
  LET point_diff == Abs(score1 - score2)
      max_possible_diff == Max(score1, score2)
  IN  IF max_possible_diff = 0 THEN <<1, 1>>
      ELSE <<max_possible_diff + 2 * point_diff, 2 * max_possible_diff>>

calculate_elo_changes(elo1, elo2, score1, score2) ==
  LET expected1 == Expected1(elo1, elo2)
      expected2 == Scale - expected1
      actual == Actual(score1, score2)
      mult == DiffMultiplier(score1, score2)
      den == mult[2] * actual[3] * Scale
      change1 == TruncDiv(K * mult[1] * (actual[1] * Scale - expected1 * actual[3]), den)
      change2 == TruncDiv(K * mult[1] * (actual[2] * Scale - expected2 * actual[3]), den)
  IN  <<change1, change2>>

----------------------------------------------------------------------------
(* Text: a string is a sequence of characters, so that strip() is computed *)

Space == " "

RECURSIVE LStrip(_)
LStrip(s) == IF s # <<>> /\ Head(s) = Space THEN LStrip(Tail(s)) ELSE s

RECURSIVE RStrip(_)
RStrip(s) ==
  IF s # <<>> /\ s[Len(s)] = Space THEN RStrip(SubSeq(s, 1, Len(s) - 1)) ELSE s

\* str.strip()
Strip(s) == RStrip(LStrip(s))

\* JSON text values of a request body: absent key, null, or a string
TAbsent == [kind |-> "absent", s |-> <<>>]

TNull == [kind |-> "null", s |-> <<>>]

TText(s) == [kind |-> "text", s |-> s]

\* truthiness of data.get('key'): present, not null, not the empty string
Truthy(t) == t.kind = "text" /\ t.s # <<>>

\* the names a POST /players request can carry
NameInputs ==
  {TText(<<>>), TText(<<" ", " ">>), TText(<<"M", "i", "k", "l", "a", "s">>),
   TText(<<" ", "A", "n", "n", "a", " ">>)}

\* the bodies <<player1_score, player2_score, notes>> a PUT /matches/{id}
\* request can carry
UpdateBodies ==
  {<<JInt(11), JInt(9), TAbsent>>, <<JInt(9), JInt(11), TAbsent>>,
   <<JInt(11), JInt(0), TAbsent>>, <<JInt(0), JInt(0), TText(<<" ", "o", "k">>)>>,
   <<JInt(11), Absent, TAbsent>>, <<Absent, JInt(9), TAbsent>>,
   <<Absent, Absent, TText(<<" ", "o", "k">>)>>,
   <<JInt(-1), JInt(11), TAbsent>>, <<JNull, JInt(11), TAbsent>>,
   <<JInt(11), JStr, TAbsent>>}

\* the bodies <<session_id, player1_id, player2_id, player1_score,
\* player2_score, notes>> a POST /matches request can carry
CreateBodies ==
  {<<1, 1, 2, Absent, Absent, TAbsent>>, <<1, 1, 2, JInt(11), Absent, TAbsent>>,
   <<1, 1, 2, JInt(11), JInt(9), TAbsent>>, <<1, 1, 1, Absent, Absent, TAbsent>>,
   <<1, 1, 9, Absent, Absent, TAbsent>>,
   <<2, 2, 3, Absent, JInt(0), TText(<<"o", "k">>)>>}

----------------------------------------------------------------------------
(* State, with the history the properties are stated on *)

VARIABLES
  players,          \* table players: id -> row (ids 1..Len, rows are never removed)
  sessions,         \* table sessions: the set of stored session ids
  matches,          \* table matches: id -> row
  next_session_id,  \* primary-key generators
  next_match_id,
  now,              \* the clock, one tick per request
  backup_scheduler, \* app.config.get('BACKUP_SCHEDULER'): None, or the
                    \* match_counter of the configured BackupScheduler
  backup,           \* what the last request or call did about the backup
  database,         \* the file at db_path: "missing", "sqlite" (it holds the
                    \* rows above) or "json" (overwritten, not a database)
  backup_dir,       \* the files of the backup directory: name -> content
  last_backup,          \* the last call of DatabaseManager.create_backup
  threads,          \* the PUT /matches/{id} requests served side by side
  call,             \* the arguments of a direct call of calculate_elo_changes
  returned,         \* what that call computed, None until it has run
  request,          \* the request handled last
  response,         \* its answer, and what became of its commit
  before            \* the committed rows as they were before that request

vars == <<players, sessions, matches, next_session_id, next_match_id, now,
          request, response, before, backup_scheduler, backup, database,
          backup_dir, last_backup, threads, call, returned>>

\* a player row whose active column would default to False
PlayerInactive(name) == [name |-> name, elo_rating |-> 1000, active |-> FALSE]

\* Player(name=...): elo_rating defaults to 1000, active to True
Player(name) == [name |-> name, elo_rating |-> 1000, active |-> TRUE]

\* Match(session_id=..., player1_id=..., player2_id=..., ...): the other
\* columns are nullable and start as None
Match(session_id, player1_id, player2_id, player1_score, player2_score, notes) ==
  [session_id |-> session_id, player1_id |-> player1_id, player2_id |-> player2_id,
   player1_score |-> player1_score, player2_score |-> player2_score,
   winner_id |-> None,
   player1_elo_before |-> None, player2_elo_before |-> None,
   player1_elo_change |-> None, player2_elo_change |-> None,
   completed_at |-> None, notes |-> notes]

\* init_database: the default players of an empty database
default_players ==
  << <<"M", "i", "k", "l", "a", "s">>, <<"M", "o", "r", "t", "e", "n">>,
     <<"P", "a", "t", "r", "i", "c", "k">>, <<"J", "e", "n", "s">> >>

\* the committed rows, as one value
DB == [players |-> players, sessions |-> sessions, matches |-> matches]

\* the worker threads of the server (app.run serves each request in a
\* thread of its own)
Threads == {1, 2}

\* a thread that serves no request
Idle == [pc |-> "idle", match_id |-> 0, status |-> 0]

\* no call of create_backup was made
NotCreated == [called |-> FALSE, by |-> "none", name |-> <<>>, path |-> None,
               rows |-> <<>>, exported |-> FALSE]

\* the request did not reach the backup trigger
NotCalled == [called |-> FALSE, by |-> "none", counter_before |-> 0,
              attempted |-> FALSE, outcome |-> "none"]

\* no direct call of calculate_elo_changes is made while requests are served
NoCall == [elo1 |-> 1000, elo2 |-> 1000, score1 |-> 0, score2 |-> 0]

NoRequest ==
  [op |-> "none", id |-> 0, session_id |-> 0, player1_id |-> 0, player2_id |-> 0,
   player1_score |-> Absent, player2_score |-> Absent, notes |-> TAbsent,
   player_ids |-> <<>>, name |-> TAbsent]

Init ==
  /\ players = [i \in 1..Len(default_players) |-> Player(default_players[i])]
  /\ sessions = {}
  /\ matches = <<>>
  /\ next_session_id = 1
  /\ next_match_id = 1
  /\ now = 0
  /\ request = NoRequest
  /\ response = [status |-> 0, commit |-> "none"]
  /\ before = DB
  /\ backup_scheduler = None
  /\ backup = NotCalled
  /\ database = "sqlite"
  /\ backup_dir = <<>>
  /\ last_backup = NotCreated
  /\ threads = [t \in Threads |-> Idle]
  /\ call = NoCall
  /\ returned = None

----------------------------------------------------------------------------
(* models/squash.py: Match *)

is_completed(match) ==
  match.player1_score # None /\ match.player2_score # None

\* an update_scores that would store a score of 0 as None
\* (self.player1_score = player1_score or None)
update_scores_zero_as_none(ps, match, player1_score, player2_score, at) ==
  LET elo_changes == calculate_elo_changes(ps[match.player1_id].elo_rating,
                                           ps[match.player2_id].elo_rating,
                                           player1_score, player2_score)
      ps1 == [ps EXCEPT ![match.player1_id].elo_rating = @ + elo_changes[1]]
      ps2 == [ps1 EXCEPT ![match.player2_id].elo_rating = @ + elo_changes[2]]
  IN  [players |-> ps2,
       match |-> [match EXCEPT
                    !.player1_elo_before = Some(ps[match.player1_id].elo_rating),
                    !.player2_elo_before = Some(ps[match.player2_id].elo_rating),
                    !.player1_score = IF player1_score = 0 THEN None
                                      ELSE Some(player1_score),
                    !.player2_score = IF player2_score = 0 THEN None
                                      ELSE Some(player2_score),
                    !.completed_at = Some(at),
                    !.winner_id = IF player1_score > player2_score
                                  THEN Some(match.player1_id)
                                  ELSE IF player2_score > player1_score
                                  THEN Some(match.player2_id)
                                  ELSE None,
                    !.player1_elo_change = Some(elo_changes[1]),
                    !.player2_elo_change = Some(elo_changes[2])]]

\* an update_scores without the else branch: a tie keeps the old winner
update_scores_tie_keeps_winner(ps, match, player1_score, player2_score, at) ==
  LET elo_changes == calculate_elo_changes(ps[match.player1_id].elo_rating,
                                           ps[match.player2_id].elo_rating,
                                           player1_score, player2_score)
      ps1 == [ps EXCEPT ![match.player1_id].elo_rating = @ + elo_changes[1]]
      ps2 == [ps1 EXCEPT ![match.player2_id].elo_rating = @ + elo_changes[2]]
  IN  [players |-> ps2,
       match |-> [match EXCEPT
                    !.player1_elo_before = Some(ps[match.player1_id].elo_rating),
                    !.player2_elo_before = Some(ps[match.player2_id].elo_rating),
                    !.player1_score = Some(player1_score),
                    !.player2_score = Some(player2_score),
                    !.completed_at = Some(at),
                    !.winner_id = IF player1_score > player2_score
                                  THEN Some(match.player1_id)
                                  ELSE IF player2_score > player1_score
                                  THEN Some(match.player2_id)
                                  ELSE @,
                    !.player1_elo_change = Some(elo_changes[1]),
                    !.player2_elo_change = Some(elo_changes[2])]]

\* Match.update_scores on a match whose player1 / player2 rows are loaded:
\* the new player rows and the new match row
update_scores(ps, match, player1_score, player2_score, at) ==
  LET player1_elo_before == ps[match.player1_id].elo_rating
      player2_elo_before == ps[match.player2_id].elo_rating
      winner_id == IF player1_score > player2_score THEN Some(match.player1_id)
                   ELSE IF player2_score > player1_score THEN Some(match.player2_id)
                   ELSE None
      elo_changes == calculate_elo_changes(player1_elo_before, player2_elo_before,
                                           player1_score, player2_score)
      ps1 == [ps EXCEPT ![match.player1_id].elo_rating = @ + elo_changes[1]]
      ps2 == [ps1 EXCEPT ![match.player2_id].elo_rating = @ + elo_changes[2]]
  IN  [players |-> ps2,
       match |-> [match EXCEPT !.player1_elo_before = Some(player1_elo_before),
                               !.player2_elo_before = Some(player2_elo_before),
                               !.player1_score = Some(player1_score),
                               !.player2_score = Some(player2_score),
                               !.completed_at = Some(at),
                               !.winner_id = winner_id,
                               !.player1_elo_change = Some(elo_changes[1]),
                               !.player2_elo_change = Some(elo_changes[2])]]

----------------------------------------------------------------------------
(* routes/squash.py: the unit of work *)

\* db.session.commit() succeeded: the working copy is the committed state
commit(committed, working) == working

\* a rollback that would leave the ratings of the working copy in place
rollback_keeps_ratings(committed, working) ==
  [committed EXCEPT !.players = working.players]

\* except SQLAlchemyError: db.session.rollback()
rollback(committed, working) == committed

\* an early return that would persist the working copy
return_with_flush(committed, working) == working

\* a return before db.session.commit(): the request's session is dropped
\* with its uncommitted changes
return_without_commit(committed, working) == committed

\* no reversal at all
revert_nothing(ps, match) == ps

\* a reversal of player1's delta only
revert_player1_only(ps, match) ==
  [ps EXCEPT ![match.player1_id].elo_rating = @ - Val(match.player1_elo_change)]

\* a reversal with the wrong sign
revert_by_adding(ps, match) ==
  LET ps1 == [ps EXCEPT ![match.player1_id].elo_rating = @ + Val(match.player1_elo_change)]
  IN  [ps1 EXCEPT ![match.player2_id].elo_rating = @ + Val(match.player2_elo_change)]

\* match.player1.elo_rating -= match.player1_elo_change
\* match.player2.elo_rating -= match.player2_elo_change
\* (the reversal of update_match, and the same two lines in delete_match)
revert_elo_changes(ps, match) ==
  LET ps1 == [ps EXCEPT ![match.player1_id].elo_rating = @ - Val(match.player1_elo_change)]
  IN  [ps1 EXCEPT ![match.player2_id].elo_rating = @ - Val(match.player2_elo_change)]

\* the state a request leaves behind
Store(db) ==
  /\ players' = db.players
  /\ sessions' = db.sessions
  /\ matches' = db.matches

\* CheckConstraint('player1_id != player2_id', name='different_players')
different_players(table) ==
  \A id \in DOMAIN table : table[id].player1_id # table[id].player2_id

\* the commit goes through: the store raises no error and the rows satisfy
\* the table constraints
Accepted(working, commit_ok) == commit_ok /\ different_players(working.matches)

\* db.session.commit(), which either succeeds or raises SQLAlchemyError
\* (answered 500 after the rollback)
CommitOrFail(working, commit_ok, ok_status) ==
  IF Accepted(working, commit_ok)
  THEN /\ Store(commit(DB, working))
       /\ response' = [status |-> ok_status, commit |-> "done"]
  ELSE /\ Store(rollback(DB, working))
       /\ response' = [status |-> 500, commit |-> "failed"]

\* a return before the commit with the given status
Reject(working, status) ==
  /\ Store(return_without_commit(DB, working))
  /\ response' = [status |-> status, commit |-> "none"]

\* the return of a handler that changes nothing; a failed query is answered
\* 500 (except SQLAlchemyError)
Answer(query_ok) == Reject(DB, IF query_ok THEN 200 ELSE 500)

\* every request takes one tick of the clock
Clock(req) ==
  /\ now < MaxTime
  /\ now' = now + 1
  /\ request' = req
  /\ before' = DB
  /\ UNCHANGED <<database, threads, call, returned>>

\* the handlers that never touch the backup scheduler
NoBackup ==
  /\ backup_scheduler' = backup_scheduler
  /\ backup' = NotCalled
  /\ UNCHANGED <<backup_dir, last_backup>>

Tick(req) == Clock(req) /\ NoBackup

-----------------------------------------------------------------------------
(* database_manager.py: DatabaseManager.  File names are relative to the   *)
(* backup directory, whose own path holds no ".db"                         *)

\* the formatted time of a backup name
Timestamp == <<"t">>

\* f"squash_backup_{timestamp}.db", the name create_backup makes up itself
SquashBackupName == <<"s", "q", "u", "a", "s", "h", "_", "b", "a", "c", "k", "u", "p", "_">> \o Timestamp \o <<".", "d", "b">>

\* f"match_milestone_{timestamp}.db"
MatchMilestoneName == <<"m", "a", "t", "c", "h", "_", "m", "i", "l", "e", "s", "t", "o", "n", "e", "_">> \o Timestamp \o <<".", "d", "b">>

\* "pre_restore_backup"
PreRestoreName == <<"p", "r", "e", "_", "r", "e", "s", "t", "o", "r", "e", "_", "b", "a", "c", "k", "u", "p">>

\* "initial_migration_backup"
InitialMigrationName == <<"i", "n", "i", "t", "i", "a", "l", "_", "m", "i", "g", "r", "a", "t", "i", "o", "n", "_", "b", "a", "c", "k", "u", "p">>

\* s.replace(old, new): every occurrence of old, from the left
RECURSIVE Replace(_, _, _)
Replace(s, old, new) ==
  IF Len(s) < Len(old) THEN s
  ELSE IF SubSeq(s, 1, Len(old)) = old
       THEN new \o Replace(SubSeq(s, Len(old) + 1, Len(s)), old, new)
       ELSE <<Head(s)>> \o Replace(Tail(s), old, new)

\* backup_path.replace('.db', '.json')
json_backup_path(backup_path) == Replace(backup_path, <<".", "d", "b">>, <<".", "j", "s", "o", "n">>)

\* the file written at name
Write(dir, name, content) == (name :> content) @@ dir

\* create_backup(backup_name): the backup directory after the call and the
\* path returned.  The copy either succeeds or raises before it wrote; the
\* JSON export reads the database, so it writes only when the file at
\* db_path is a database and no error occurs
create_backup(dir, db_file, rows, backup_name, copy_ok, export_ok) ==
  LET backup_path == IF backup_name = None THEN SquashBackupName ELSE Val(backup_name)
      copied == Write(dir, backup_path, [format |-> db_file, data |-> rows])
      exported == IF export_ok /\ db_file = "sqlite"
                  THEN Write(copied, json_backup_path(backup_path),
                             [format |-> "json", data |-> rows])
                  ELSE copied
  IN  IF db_file = "missing" THEN [backup_dir |-> dir, path |-> None]
      ELSE IF ~copy_ok THEN [backup_dir |-> dir, path |-> None]
      ELSE [backup_dir |-> exported, path |-> Some(backup_path)]

\* the record of a call of create_backup
Created(by, db_file, rows, backup_name, copy_ok, export_ok) ==
  [called |-> TRUE, by |-> by,
   name |-> IF backup_name = None THEN SquashBackupName ELSE Val(backup_name),
   path |-> create_backup(<<>>, db_file, rows, backup_name, copy_ok, export_ok).path,
   rows |-> rows,
   exported |-> export_ok /\ db_file = "sqlite"]

\* the names a direct call of create_backup is given
BackupNames == {None, Some(PreRestoreName), Some(InitialMigrationName)}

\* a call of db_manager.create_backup(backup_name)
create_backup_call(backup_name, copy_ok, export_ok) ==
  /\ backup_dir' = create_backup(backup_dir, database, DB, backup_name,
                                 copy_ok, export_ok).backup_dir
  /\ last_backup' = Created("create_backup", database, DB, backup_name, copy_ok, export_ok)
  /\ UNCHANGED <<players, sessions, matches, next_session_id, next_match_id, now,
                 request, response, before, backup_scheduler, backup, database,
                 threads, call, returned>>

\* restore_from_backup(backup_path): the current database is backed up
\* first, then the backup file is copied over it
restore_from_backup(backup_path, copy_ok, export_ok, restore_ok) ==
  /\ IF backup_path \notin DOMAIN backup_dir
     THEN UNCHANGED <<players, sessions, matches, database, backup_dir>>
          /\ last_backup' = NotCreated
     ELSE LET current_backup ==
                IF database # "missing"
                THEN create_backup(backup_dir, database, DB, Some(PreRestoreName),
                                   copy_ok, export_ok)
                ELSE [backup_dir |-> backup_dir, path |-> None]
              restored == current_backup.backup_dir[backup_path]
          IN  /\ backup_dir' = current_backup.backup_dir
              /\ last_backup' = IF database # "missing"
                            THEN Created("restore_from_backup", database, DB,
                                         Some(PreRestoreName), copy_ok, export_ok)
                            ELSE NotCreated
              /\ IF restore_ok
                 THEN database' = restored.format /\ Store(restored.data)
                 ELSE UNCHANGED <<players, sessions, matches, database>>
  /\ UNCHANGED <<next_session_id, next_match_id, now, request, response, before,
                 backup_scheduler, backup, threads, call, returned>>

\* the rows of the database found at old_db_path
LegacyRows ==
  [players |-> <<Player(<<"A", "n", "n", "a">>)>>, sessions |-> {}, matches |-> <<>>]

\* migrate_existing_database(old_db_path)
migrate_existing_database(old_exists, migrate_ok, copy_ok, export_ok) ==
  /\ IF old_exists /\ database = "missing" /\ migrate_ok
     THEN /\ database' = "sqlite"
          /\ Store(LegacyRows)
          /\ backup_dir' = create_backup(backup_dir, "sqlite", LegacyRows,
                                         Some(InitialMigrationName),
                                         copy_ok, export_ok).backup_dir
          /\ last_backup' = Created("migrate_existing_database", "sqlite", LegacyRows,
                                Some(InitialMigrationName), copy_ok, export_ok)
     ELSE /\ UNCHANGED <<players, sessions, matches, database, backup_dir>>
          /\ last_backup' = NotCreated
  /\ UNCHANGED <<next_session_id, next_match_id, now, request, response, before,
                 backup_scheduler, backup, threads, call, returned>>

-----------------------------------------------------------------------------
(* backup_scheduler.py: BackupScheduler *)

\* self.matches_per_backup = 10
matches_per_backup == 10

\* what db_manager.create_backup(...) can do: return the path of the backup,
\* return None, or raise; "escaped" is an exception that leaves
\* trigger_match_backup itself
BackupOutcomes == {"created", "none", "raised", "escaped"}

\* a trigger that would reset the counter after every attempt
trigger_resetting_always(match_counter, outcome) ==
  LET counted == match_counter + 1
      due == counted >= matches_per_backup
  IN  [match_counter |-> IF due THEN 0 ELSE counted,
       attempted |-> due,
       outcome |-> IF due THEN outcome ELSE "none",
       raises |-> due /\ outcome = "escaped"]

\* trigger_match_backup(): the counter after the call, whether a backup was
\* attempted, and whether an exception leaves the call
trigger_match_backup(match_counter, outcome) ==
  LET counted == match_counter + 1
      due == counted >= matches_per_backup
  IN  [match_counter |-> IF due /\ outcome = "created" THEN 0 ELSE counted,
       attempted |-> due,
       outcome |-> IF due THEN outcome ELSE "none",
       raises |-> due /\ outcome = "escaped"]

\* the files of a call of trigger_match_backup: when a backup is due and
\* create_backup returns its path, the copy and the export were written
milestone_backup(match_counter, outcome, rows) ==
  IF /\ trigger_match_backup(match_counter, outcome).attempted
     /\ outcome = "created"
     /\ database # "missing"
  THEN /\ backup_dir' = create_backup(backup_dir, database, rows,
                                      Some(MatchMilestoneName), TRUE, TRUE).backup_dir
       /\ last_backup' = Created("trigger_match_backup", database, rows,
                             Some(MatchMilestoneName), TRUE, TRUE)
  ELSE UNCHANGED <<backup_dir, last_backup>>

\* the record of a call of trigger_match_backup made by a handler or directly
Called(by, match_counter, outcome) ==
  [called |-> TRUE, by |-> by, counter_before |-> match_counter,
   attempted |-> trigger_match_backup(match_counter, outcome).attempted,
   outcome |-> trigger_match_backup(match_counter, outcome).outcome]

\* a direct call of backup_scheduler.trigger_match_backup()
trigger(outcome) ==
  /\ backup_scheduler # None
  /\ Val(backup_scheduler) <= MaxCounter
  /\ backup_scheduler' = Some(trigger_match_backup(Val(backup_scheduler), outcome).match_counter)
  /\ backup' = Called("direct", Val(backup_scheduler), outcome)
  /\ milestone_backup(Val(backup_scheduler), outcome, DB)
  /\ UNCHANGED <<players, sessions, matches, next_session_id, next_match_id, now,
                 request, response, before, database, threads, call, returned>>

----------------------------------------------------------------------------
(* routes/squash.py: health check and player endpoints *)

\* GET /health
health_check(query_ok) ==
  /\ Tick([NoRequest EXCEPT !.op = "health_check"])
  /\ UNCHANGED <<next_session_id, next_match_id>>
  /\ Answer(query_ok)

\* the rows GET /players would return without its filter
all_players(ps) == DOMAIN ps

\* the rows GET /players returns: Player.query.filter_by(active=True)
active_players(ps) == {i \in DOMAIN ps : ps[i].active}

\* GET /players
get_players(query_ok) ==
  /\ Tick([NoRequest EXCEPT !.op = "get_players"])
  /\ UNCHANGED <<next_session_id, next_match_id>>
  /\ Answer(query_ok)

\* POST /players
create_player(name_in, commit_ok) ==
  /\ Tick([NoRequest EXCEPT !.op = "create_player", !.name = name_in])
  /\ UNCHANGED <<next_session_id, next_match_id>>
  /\ LET name == Strip(name_in.s)
     IN  IF name_in.kind = "null"
         THEN \* None.strip() raises; validate_json_request answers 400
              Reject(DB, 400)
         ELSE IF name = <<>>
         THEN Reject(DB, 400)
         ELSE IF \E i \in DOMAIN players : players[i].name = name
         THEN Reject(DB, 400)
         ELSE /\ Len(players) < MaxPlayers
              /\ CommitOrFail([DB EXCEPT !.players = Append(players, Player(name))],
                              commit_ok, 201)

\* a soft delete that would also reset the rating
deactivate_and_reset(player) == [player EXCEPT !.active = FALSE, !.elo_rating = 1000]

\* player.active = False
deactivate(player) == [player EXCEPT !.active = FALSE]

\* DELETE /players/{id}
delete_player(player_id, commit_ok) ==
  /\ Tick([NoRequest EXCEPT !.op = "delete_player", !.id = player_id])
  /\ UNCHANGED <<next_session_id, next_match_id>>
  /\ IF player_id \notin DOMAIN players
     THEN Reject(DB, 404)
     ELSE CommitOrFail([DB EXCEPT !.players[player_id] = deactivate(@)], commit_ok, 200)

----------------------------------------------------------------------------
(* routes/squash.py: session endpoints *)

\* GET /sessions
get_sessions(query_ok) ==
  /\ Tick([NoRequest EXCEPT !.op = "get_sessions"])
  /\ UNCHANGED <<next_session_id, next_match_id>>
  /\ Answer(query_ok)

\* the nested loops, had the inner one run over every j # i
CombinationsBothOrders(n) ==
  LET S == {p \in (1..n) \X (1..n) : p[1] # p[2]}
      Rank(p) == Cardinality({q \in S : q[1] < p[1] \/ (q[1] = p[1] /\ q[2] < p[2])})
  IN  [k \in 1..Cardinality(S) |-> CHOOSE p \in S : Rank(p) = k - 1]

\* the index pairs (i, j), i < j, in the order of the two nested loops
Combinations(n) ==
  LET S == {p \in (1..n) \X (1..n) : p[1] < p[2]}
      Rank(p) == Cardinality({q \in S : q[1] < p[1] \/ (q[1] = p[1] /\ q[2] < p[2])})
  IN  [k \in 1..Cardinality(S) |-> CHOOSE p \in S : Rank(p) = k - 1]

\* rows of a table without the rows of the given ids
Without(table, ids) == [i \in DOMAIN table \ ids |-> table[i]]

\* a lookup that would find only the active players
active_players_in(ps, player_ids) ==
  {i \in DOMAIN ps : ps[i].active /\ \E k \in DOMAIN player_ids : player_ids[k] = i}

\* Player.query.filter(Player.id.in_(player_ids)).all()
players_in(ps, player_ids) ==
  {i \in DOMAIN ps : \E k \in DOMAIN player_ids : player_ids[k] = i}

\* POST /sessions
create_session(player_ids, commit_ok) ==
  /\ Tick([NoRequest EXCEPT !.op = "create_session", !.player_ids = player_ids])
  /\ IF Len(player_ids) < 2
     THEN /\ Reject(DB, 400)
          /\ UNCHANGED <<next_session_id, next_match_id>>
     ELSE LET found == players_in(players, player_ids)
              pairs == Combinations(Len(player_ids))
              new_matches == [id \in next_match_id..(next_match_id + Len(pairs) - 1) |->
                                LET p == pairs[id - next_match_id + 1]
                                IN  Match(next_session_id, player_ids[p[1]], player_ids[p[2]],
                                          None, None, None)]
          IN  IF Cardinality(found) # Len(player_ids)
              THEN /\ Reject(DB, 404)
                   /\ UNCHANGED <<next_session_id, next_match_id>>
              ELSE LET working == [DB EXCEPT !.sessions = @ \cup {next_session_id},
                                             !.matches = @ @@ new_matches]
                   IN  /\ next_session_id <= MaxSessions
                       /\ next_match_id + Len(pairs) - 1 <= MaxMatches
                       /\ CommitOrFail(working, commit_ok, 200)
                       /\ next_session_id' = IF Accepted(working, commit_ok)
                                             THEN next_session_id + 1
                                             ELSE next_session_id
                       /\ next_match_id' = IF Accepted(working, commit_ok)
                                           THEN next_match_id + Len(pairs)
                                           ELSE next_match_id

\* a session deletion that would skip the reversal
RevertNone(ps, table, ids) == ps

\* the loop of delete_session over the completed matches of the session
RECURSIVE RevertAll(_, _, _)
RevertAll(ps, table, ids) ==
  IF ids = {} THEN ps
  ELSE LET id == CHOOSE i \in ids : \A j \in ids : i <= j
           match == table[id]
           ps1 == IF match.player1_elo_change # None
                  THEN [ps EXCEPT ![match.player1_id].elo_rating =
                                     @ - Val(match.player1_elo_change)]
                  ELSE ps
           ps2 == IF match.player2_elo_change # None
                  THEN [ps1 EXCEPT ![match.player2_id].elo_rating =
                                      @ - Val(match.player2_elo_change)]
                  ELSE ps1
       IN  RevertAll(ps2, table, ids \ {id})

\* DELETE /sessions/{id}
delete_session(session_id, commit_ok) ==
  /\ Tick([NoRequest EXCEPT !.op = "delete_session", !.id = session_id])
  /\ UNCHANGED <<next_session_id, next_match_id>>
  /\ IF session_id \notin sessions
     THEN Reject(DB, 404)
     ELSE LET of_session == {id \in DOMAIN matches : matches[id].session_id = session_id}
              completed_matches == {id \in of_session : is_completed(matches[id])}
          IN  CommitOrFail([players |-> RevertAll(players, matches, completed_matches),
                            sessions |-> sessions \ {session_id},
                            matches |-> Without(matches, of_session)],
                           commit_ok, 200)

----------------------------------------------------------------------------
(* routes/squash.py: match endpoints *)

\* data.get('player1_score'): None when the key is absent or null
ScoreOf(j) == IF NotNone(j) THEN Some(j.v) ELSE None

\* data.get('notes', '').strip() if data.get('notes') else None
NotesOf(t) == IF Truthy(t) THEN Some(Strip(t.s)) ELSE None

\* a comparison that would let every pair through
never_same_player(player1_id, player2_id) == FALSE

\* if player1_id == player2_id
same_player(player1_id, player2_id) == player1_id = player2_id

\* POST /matches
create_match(session_id, player1_id, player2_id, score1_in, score2_in, notes_in, commit_ok) ==
  /\ Tick([NoRequest EXCEPT !.op = "create_match", !.session_id = session_id,
                            !.player1_id = player1_id, !.player2_id = player2_id,
                            !.player1_score = score1_in, !.player2_score = score2_in,
                            !.notes = notes_in])
  /\ UNCHANGED next_session_id
  /\ LET player1_score == ScoreOf(score1_in)
         player2_score == ScoreOf(score2_in)
         match == Match(session_id, player1_id, player2_id, player1_score,
                        player2_score, NotesOf(notes_in))
     IN  IF session_id = 0 \/ player1_id = 0 \/ player2_id = 0
         THEN Reject(DB, 400) /\ UNCHANGED next_match_id
         ELSE IF same_player(player1_id, player2_id)
         THEN Reject(DB, 400) /\ UNCHANGED next_match_id
         ELSE IF player1_id \notin DOMAIN players \/ player2_id \notin DOMAIN players
         THEN Reject(DB, 404) /\ UNCHANGED next_match_id
         ELSE IF session_id \notin sessions
         THEN Reject(DB, 404) /\ UNCHANGED next_match_id
         ELSE IF player1_score # None /\ player2_score # None
         THEN \* match.update_scores() on the new Match object, which is not
              \* yet in the session: its player1 relationship is None, so
              \* self.player1.elo_rating raises AttributeError, which the
              \* wrapper of validate_json_request answers with 400
              Reject(DB, 400) /\ UNCHANGED next_match_id
         ELSE LET working == [DB EXCEPT !.matches = @ @@ (next_match_id :> match)]
              IN  /\ next_match_id <= MaxMatches
                  /\ CommitOrFail(working, commit_ok, 201)
                  /\ next_match_id' = IF Accepted(working, commit_ok)
                                      THEN next_match_id + 1
                                      ELSE next_match_id

\* a handler without the try/except around the backup trigger
except_nothing(raises) == raises

\* try: ... trigger_match_backup() except Exception: print(...): whether an
\* exception of the trigger still leaves the handler
except_exception(raises) == FALSE

\* the rest of update_match after db.session.commit() has gone through: the
\* backup trigger, if a scheduler is configured, and the answer
after_commit(outcome, rows) ==
  IF backup_scheduler = None
  THEN /\ response' = [status |-> 200, commit |-> "done"]
       /\ NoBackup
  ELSE LET triggered == trigger_match_backup(Val(backup_scheduler), outcome)
       IN  /\ backup_scheduler' = Some(triggered.match_counter)
           /\ backup' = Called("update_match", Val(backup_scheduler), outcome)
           /\ milestone_backup(Val(backup_scheduler), outcome, rows)
           /\ response' = IF except_exception(triggered.raises)
                          THEN \* left to the wrapper of validate_json_request
                               [status |-> 400, commit |-> "done"]
                          ELSE [status |-> 200, commit |-> "done"]

\* update_match between the query of the match and db.session.commit(): the
\* session's objects after the reversal (reverted) and after the whole body
\* (working), and whether the scores passed the validation
score_update(db, match_id, score1_in, score2_in, notes_in, at) ==
  LET match == db.matches[match_id]
      \* if the match was already completed, revert previous changes
      reverted == IF /\ is_completed(match)
                     /\ match.player1_elo_change # None
                     /\ match.player2_elo_change # None
                  THEN [db EXCEPT !.players = revert_elo_changes(db.players, match)]
                  ELSE db
      has_scores == HasKey(score1_in) /\ HasKey(score2_in)
      valid == ~has_scores \/ /\ IsInt(score1_in) /\ IsInt(score2_in)
                              /\ score1_in.v >= 0 /\ score2_in.v >= 0
      scored == update_scores(reverted.players, match, score1_in.v, score2_in.v, at)
      after_scores == IF has_scores
                      THEN [reverted EXCEPT !.players = scored.players,
                                            !.matches[match_id] = scored.match]
                      ELSE reverted
      after_notes == IF HasKey(notes_in)
                     THEN [after_scores EXCEPT !.matches[match_id].notes =
                                                  NotesOf(notes_in)]
                     ELSE after_scores
  IN  [valid |-> valid, reverted |-> reverted,
       working |-> IF valid THEN after_notes ELSE reverted]

\* PUT /matches/{id}
update_match(match_id, score1_in, score2_in, notes_in, commit_ok, backup_in) ==
  /\ Clock([NoRequest EXCEPT !.op = "update_match", !.id = match_id,
                             !.player1_score = score1_in, !.player2_score = score2_in,
                             !.notes = notes_in])
  /\ UNCHANGED <<next_session_id, next_match_id>>
  /\ IF match_id \notin DOMAIN matches
     THEN Reject(DB, 404) /\ NoBackup
     ELSE LET update == score_update(DB, match_id, score1_in, score2_in, notes_in, now + 1)
          IN  IF ~update.valid
              THEN Reject(update.reverted, 400) /\ NoBackup
              ELSE IF Accepted(update.working, commit_ok)
              THEN /\ Store(commit(DB, update.working))
                   /\ after_commit(backup_in, commit(DB, update.working))
              ELSE CommitOrFail(update.working, commit_ok, 200) /\ NoBackup

\* PUT /matches/{id} served by thread t, up to db.session.commit(): the rows
\* are read from the store into the thread's session and changed there
update_match_load(t, match_id, score1_in, score2_in, notes_in) ==
  /\ threads[t].pc = "idle"
  /\ threads' = [threads EXCEPT ![t] =
       IF match_id \notin DOMAIN matches
       THEN [pc |-> "answered", match_id |-> match_id, status |-> 404]
       ELSE LET update == score_update(DB, match_id, score1_in, score2_in, notes_in,
                                       now + 1)
            IN  IF ~update.valid
                THEN [pc |-> "answered", match_id |-> match_id, status |-> 400]
                ELSE [pc |-> "loaded", match_id |-> match_id, status |-> 0,
                      loaded |-> DB, working |-> update.working]]
  /\ UNCHANGED <<players, sessions, matches, next_session_id, next_match_id, now,
                 request, response, before, backup_scheduler, backup, database,
                 backup_dir, last_backup, call, returned>>

\* the flush of a session: an UPDATE of each attribute whose value differs
\* from the one loaded, written as the value computed in the session
flush(db, loaded, working, match_id) ==
  [db EXCEPT
     !.players = [p \in DOMAIN db.players |->
                    IF working.players[p].elo_rating # loaded.players[p].elo_rating
                    THEN [db.players[p] EXCEPT !.elo_rating = working.players[p].elo_rating]
                    ELSE db.players[p]],
     !.matches[match_id] = working.matches[match_id]]

\* db.session.commit() of thread t and its answer
update_match_commit(t, commit_ok) ==
  /\ threads[t].pc = "loaded"
  /\ IF commit_ok
     THEN /\ Store(flush(DB, threads[t].loaded, threads[t].working, threads[t].match_id))
          /\ threads' = [threads EXCEPT ![t] =
               [pc |-> "answered", match_id |-> threads[t].match_id, status |-> 200]]
     ELSE /\ Store(DB)
          /\ threads' = [threads EXCEPT ![t] =
               [pc |-> "answered", match_id |-> threads[t].match_id, status |-> 500]]
  /\ UNCHANGED <<next_session_id, next_match_id, now, request, response, before,
                 backup_scheduler, backup, database, backup_dir, last_backup, call,
                 returned>>

\* Match.to_dict() of a stored match
to_dict(db, match_id) ==
  LET match == db.matches[match_id]
  IN  [id |-> match_id, session_id |-> match.session_id,
       player1_id |-> match.player1_id, player2_id |-> match.player2_id,
       player1_score |-> match.player1_score, player2_score |-> match.player2_score,
       winner_id |-> match.winner_id,
       player1_elo_before |-> match.player1_elo_before,
       player2_elo_before |-> match.player2_elo_before,
       player1_elo_change |-> match.player1_elo_change,
       player2_elo_change |-> match.player2_elo_change,
       completed_at |-> match.completed_at, notes |-> match.notes,
       player1_name |-> db.players[match.player1_id].name,
       player2_name |-> db.players[match.player2_id].name,
       winner_name |-> IF match.winner_id # None
                       THEN Some(db.players[Val(match.winner_id)].name) ELSE None,
       is_completed |-> is_completed(match)]

\* the body of a successful PUT /matches/{id} answer, built from the rows
\* after the commit: the match, and elo_changes when it stores deltas
update_match_response(db, match_id) ==
  LET match == db.matches[match_id]
  IN  [match |-> to_dict(db, match_id),
       elo_changes |->
         IF match.player1_elo_change # None /\ match.player2_elo_change # None
         THEN Some([player1 |-> [name |-> db.players[match.player1_id].name,
                                 elo_before |-> match.player1_elo_before,
                                 elo_change |-> match.player1_elo_change,
                                 elo_after |-> db.players[match.player1_id].elo_rating],
                    player2 |-> [name |-> db.players[match.player2_id].name,
                                 elo_before |-> match.player2_elo_before,
                                 elo_change |-> match.player2_elo_change,
                                 elo_after |-> db.players[match.player2_id].elo_rating]])
         ELSE None]

\* DELETE /matches/{id}
delete_match(match_id, commit_ok) ==
  /\ Tick([NoRequest EXCEPT !.op = "delete_match", !.id = match_id])
  /\ UNCHANGED <<next_session_id, next_match_id>>
  /\ IF match_id \notin DOMAIN matches
     THEN Reject(DB, 404)
     ELSE LET match == matches[match_id]
              reverted == IF /\ is_completed(match)
                             /\ match.player1_elo_change # None
                             /\ match.player2_elo_change # None
                          THEN revert_elo_changes(players, match)
                          ELSE players
          IN  CommitOrFail([DB EXCEPT !.players = reverted,
                                      !.matches = Without(matches, {match_id})],
                           commit_ok, 200)

----------------------------------------------------------------------------
(* routes/squash.py: derived views *)

\* the completed matches a player took part in (the query of the loop body)
all_matches(db, player_id) ==
  {i \in DOMAIN db.matches :
     /\ db.matches[i].player1_id = player_id \/ db.matches[i].player2_id = player_id
     /\ is_completed(db.matches[i])}

\* round(num / den * scale): the nearest whole number of 1/scale units; no
\* quotient of the model falls halfway between two of them
RoundTo(num, den, scale) == (2 * scale * num + den) \div (2 * den)

\* one leaderboard entry; win_rate in tenths of a percent, points_per_match
\* in hundredths
leaderboard_entry(db, player_id) ==
  LET total_matches == Cardinality(all_matches(db, player_id))
      wins == Cardinality({i \in all_matches(db, player_id) :
                             db.matches[i].winner_id = Some(player_id)})
      losses == total_matches - wins
      total_points == wins * 3 + losses * 1
  IN  [id |-> player_id,
       name |-> db.players[player_id].name,
       elo_rating |-> db.players[player_id].elo_rating,
       matches_played |-> total_matches,
       wins |-> wins,
       losses |-> losses,
       win_rate |-> RoundTo(wins, total_matches, 1000),
       total_points |-> total_points,
       points_per_match |-> RoundTo(total_points, total_matches, 100)]

\* the entries, had the players query not filtered on active
leaderboard_entries_of_all_players(db, n) ==
  LET played(i) == all_matches(db, i) # {}
      ids == SelectSeq([i \in 1..n |-> i], played)
  IN  [k \in 1..Len(ids) |-> leaderboard_entry(db, ids[k])]

\* the entries in the order of the players query: active players with a
\* completed match
RECURSIVE leaderboard_entries(_, _)
leaderboard_entries(db, n) ==
  IF n = 0 THEN <<>>
  ELSE IF db.players[n].active /\ all_matches(db, n) # {}
       THEN Append(leaderboard_entries(db, n - 1), leaderboard_entry(db, n))
       ELSE leaderboard_entries(db, n - 1)

\* the sort key (elo_rating, points_per_match) of x is greater than that of y
key_greater(x, y) ==
  \/ x.elo_rating > y.elo_rating
  \/ x.elo_rating = y.elo_rating /\ x.points_per_match > y.points_per_match

\* list.sort(key=..., reverse=True): descending and stable
RECURSIVE insert_sorted(_, _)
insert_sorted(x, sorted) ==
  IF sorted = <<>> THEN <<x>>
  ELSE IF key_greater(x, Head(sorted)) THEN <<x>> \o sorted
       ELSE <<Head(sorted)>> \o insert_sorted(x, Tail(sorted))

RECURSIVE sort_reverse(_)
sort_reverse(list) ==
  IF list = <<>> THEN <<>>
  ELSE insert_sorted(list[Len(list)], sort_reverse(SubSeq(list, 1, Len(list) - 1)))

\* the body of a successful GET /leaderboard answer
leaderboard(db) == sort_reverse(leaderboard_entries(db, Len(db.players)))

\* GET /leaderboard
get_leaderboard(query_ok) ==
  /\ Tick([NoRequest EXCEPT !.op = "get_leaderboard"])
  /\ UNCHANGED <<next_session_id, next_match_id>>
  /\ Answer(query_ok)

\* .limit(10)
highlights_limit == 10

\* the matches of the query: both scores and completed_at not None
completed_matches(db) ==
  {i \in DOMAIN db.matches :
     /\ db.matches[i].player1_score # None
     /\ db.matches[i].player2_score # None
     /\ db.matches[i].completed_at # None}

\* order_by(Match.completed_at.desc()): the latest first (rows completed at
\* the same time come in primary-key order)
RECURSIVE order_by_completed_at_desc(_, _)
order_by_completed_at_desc(db, ids) ==
  IF ids = {} THEN <<>>
  ELSE LET first == CHOOSE i \in ids : \A j \in ids :
                      \/ Val(db.matches[i].completed_at) > Val(db.matches[j].completed_at)
                      \/ /\ Val(db.matches[i].completed_at) = Val(db.matches[j].completed_at)
                         /\ i <= j
       IN  <<first>> \o order_by_completed_at_desc(db, ids \ {first})

\* the most recent completed matches (last 10), as match ids
recent_matches(db) ==
  LET ordered == order_by_completed_at_desc(db, completed_matches(db))
  IN  SubSeq(ordered, 1, IF Len(ordered) < highlights_limit THEN Len(ordered)
                         ELSE highlights_limit)

\* a comparison that would let a later equal value replace the kept one
exceeds_or_equals(elo_change, best) ==
  best = None \/ elo_change >= Val(best).elo_change

\* biggest_gain is None or elo_change > biggest_gain['elo_change']
exceeds(elo_change, best) ==
  best = None \/ elo_change > Val(best).elo_change

\* biggest_loss is None or elo_change < biggest_loss['elo_change']
falls_below(elo_change, best) ==
  best = None \/ elo_change < Val(best).elo_change

\* if match.player1_elo_change and match.player2_elo_change: both are
\* neither None nor 0
both_truthy(match) ==
  /\ match.player1_elo_change # None /\ Val(match.player1_elo_change) # 0
  /\ match.player2_elo_change # None /\ Val(match.player2_elo_change) # 0

\* the entry kept for one side of a match
side_entry(db, match_id, side) ==
  LET match == db.matches[match_id]
  IN  IF side = 1
      THEN [match_id |-> match_id, side |-> 1,
            player_name |-> db.players[match.player1_id].name,
            elo_change |-> Val(match.player1_elo_change),
            opponent |-> db.players[match.player2_id].name,
            score |-> <<Val(match.player1_score), Val(match.player2_score)>>]
      ELSE [match_id |-> match_id, side |-> 2,
            player_name |-> db.players[match.player2_id].name,
            elo_change |-> Val(match.player2_elo_change),
            opponent |-> db.players[match.player1_id].name,
            score |-> <<Val(match.player2_score), Val(match.player1_score)>>]

\* the loop over recent_matches: biggest_gain and biggest_loss after the
\* first k matches
RECURSIVE biggest(_, _, _)
biggest(db, recent, k) ==
  IF k = 0 THEN [gain |-> None, loss |-> None]
  ELSE LET so_far == biggest(db, recent, k - 1)
           match == db.matches[recent[k]]
           entry1 == side_entry(db, recent[k], 1)
           entry2 == side_entry(db, recent[k], 2)
           gain1 == IF exceeds(entry1.elo_change, so_far.gain)
                    THEN Some(entry1) ELSE so_far.gain
           gain2 == IF exceeds(entry2.elo_change, gain1) THEN Some(entry2) ELSE gain1
           loss1 == IF falls_below(entry1.elo_change, so_far.loss)
                    THEN Some(entry1) ELSE so_far.loss
           loss2 == IF falls_below(entry2.elo_change, loss1) THEN Some(entry2) ELSE loss1
       IN  IF both_truthy(match) THEN [gain |-> gain2, loss |-> loss2] ELSE so_far

\* the body of a successful GET /highlights answer (without matches_today,
\* which depends on the calendar date only)
highlights(db) ==
  LET recent == recent_matches(db)
      stats == biggest(db, recent, Len(recent))
  IN  [recent_matches |-> recent,
       stats |-> [biggest_elo_gain |-> stats.gain, biggest_elo_loss |-> stats.loss]]

\* GET /highlights
get_highlights(query_ok) ==
  /\ Tick([NoRequest EXCEPT !.op = "get_highlights"])
  /\ UNCHANGED <<next_session_id, next_match_id>>
  /\ Answer(query_ok)

----------------------------------------------------------------------------
(* The system: any request at any time *)

Next ==
  \/ \E name_in \in NameInputs, commit_ok \in BOOLEAN :
       create_player(name_in, commit_ok)
  \/ \E player_id \in PlayerIdInputs, commit_ok \in BOOLEAN :
       delete_player(player_id, commit_ok)
  \/ \E player_ids \in PlayerIdsInputs, commit_ok \in BOOLEAN :
       create_session(player_ids, commit_ok)
  \/ \E session_id \in 1..MaxSessions, commit_ok \in BOOLEAN :
       delete_session(session_id, commit_ok)
  \/ \E b \in CreateBodies, commit_ok \in BOOLEAN :
       create_match(b[1], b[2], b[3], b[4], b[5], b[6], commit_ok)
  \/ \E match_id \in 1..MaxMatches, b \in UpdateBodies, commit_ok \in BOOLEAN :
       update_match(match_id, b[1], b[2], b[3], commit_ok, "created")
  \/ \E match_id \in 1..MaxMatches, commit_ok \in BOOLEAN :
       delete_match(match_id, commit_ok)
  \/ \E query_ok \in BOOLEAN : health_check(query_ok)
  \/ \E query_ok \in BOOLEAN : get_players(query_ok)
  \/ \E query_ok \in BOOLEAN : get_sessions(query_ok)
  \/ \E query_ok \in BOOLEAN : get_leaderboard(query_ok)
  \/ \E query_ok \in BOOLEAN : get_highlights(query_ok)

Spec == Init /\ [][Next]_vars

-----------------------------------------------------------------------------
(* Match.calculate_elo_changes called on its own: the arguments are drawn  *)
(* from the ratings in CalcRatings and the scores 0..MaxScore              *)

InitCalc ==
  /\ players = [i \in 1..Len(default_players) |-> Player(default_players[i])]
  /\ sessions = {}
  /\ matches = <<>>
  /\ next_session_id = 1
  /\ next_match_id = 1
  /\ now = 0
  /\ request = NoRequest
  /\ response = [status |-> 0, commit |-> "none"]
  /\ before = DB
  /\ backup_scheduler = None
  /\ backup = NotCalled
  /\ database = "sqlite"
  /\ backup_dir = <<>>
  /\ last_backup = NotCreated
  /\ threads = [t \in Threads |-> Idle]
  /\ call \in [elo1 : CalcRatings, elo2 : CalcRatings,
               score1 : 0..MaxScore, score2 : 0..MaxScore]
  /\ returned = None

\* the call runs: its result and the intermediate values it went through
Calculate ==
  /\ returned = None
  /\ returned' = Some([changes |-> calculate_elo_changes(call.elo1, call.elo2,
                                                         call.score1, call.score2),
                       expected1 |-> Expected1(call.elo1, call.elo2),
                       expected2 |-> Scale - Expected1(call.elo1, call.elo2),
                       actual |-> Actual(call.score1, call.score2),
                       diff_multiplier |-> DiffMultiplier(call.score1, call.score2),
                       \* the ratings after update_scores has added the changes
                       ratings |->
                         LET rated == <<[Player(default_players[1]) EXCEPT
                                           !.elo_rating = call.elo1],
                                         [Player(default_players[2]) EXCEPT
                                           !.elo_rating = call.elo2]>>
                             scored == update_scores(rated, Match(1, 1, 2, None, None, None),
                                                     call.score1, call.score2, 1)
                         IN  <<scored.players[1].elo_rating,
                               scored.players[2].elo_rating>>])
  /\ UNCHANGED <<players, sessions, matches, next_session_id, next_match_id, now,
                 request, response, before, backup_scheduler, backup, database,
                 backup_dir, last_backup, threads, call>>

NextCalc == Calculate

SpecCalc == InitCalc /\ [][NextCalc]_vars

-----------------------------------------------------------------------------
(* The application configured with a BackupScheduler: sessions are created *)
(* and matches scored, and the scheduler is also called on its own         *)

\* the bodies of the PUT /matches/{id} requests of this configuration
BackupBodies ==
  {<<JInt(11), JInt(9), TAbsent>>, <<JInt(-1), JInt(11), TAbsent>>,
   <<Absent, Absent, TText(<<" ", "o", "k">>)>>}

InitBackup ==
  /\ players = [i \in 1..Len(default_players) |-> Player(default_players[i])]
  /\ sessions = {}
  /\ matches = <<>>
  /\ next_session_id = 1
  /\ next_match_id = 1
  /\ now = 0
  /\ request = NoRequest
  /\ response = [status |-> 0, commit |-> "none"]
  /\ before = DB
  /\ backup_scheduler = Some(0)
  /\ backup = NotCalled
  /\ database = "sqlite"
  /\ backup_dir = <<>>
  /\ last_backup = NotCreated
  /\ threads = [t \in Threads |-> Idle]
  /\ call = NoCall
  /\ returned = None

NextBackup ==
  \/ \E commit_ok \in BOOLEAN : create_session(<<1, 2>>, commit_ok)
  \/ \E b \in BackupBodies, commit_ok \in BOOLEAN, backup_in \in BackupOutcomes :
       update_match(1, b[1], b[2], b[3], commit_ok, backup_in)
  \/ \E outcome \in BackupOutcomes : trigger(outcome)

SpecBackup == InitBackup /\ [][NextBackup]_vars

-----------------------------------------------------------------------------
(* GET /highlights on its own, served from a database in which two players *)
(* have played up to MaxRecent matches of one session                      *)

\* the scores of those matches
HighlightScores == {<<11, 9>>, <<0, 11>>, <<0, 0>>}

\* the rows after n matches between players 1 and 2 were created and then
\* scored one after the other: the first as oldest, the last as newest, the
\* ones in between as fill; the k-th is completed at time k - n
RECURSIVE Played(_, _, _, _, _)
Played(k, n, oldest, fill, newest) ==
  IF k = 0
  THEN [players |-> [i \in 1..Len(default_players) |-> Player(default_players[i])],
        sessions |-> {1}, matches |-> <<>>]
  ELSE LET db == Played(k - 1, n, oldest, fill, newest)
           scores == IF k = 1 THEN oldest ELSE IF k = n THEN newest ELSE fill
           scored == update_scores(db.players, Match(1, 1, 2, None, None, None),
                                   scores[1], scores[2], k - n)
       IN  [db EXCEPT !.players = scored.players,
                      !.matches = Append(db.matches, scored.match)]

InitHighlights ==
  /\ \E n \in 0..MaxRecent, oldest \in HighlightScores, fill \in HighlightScores,
        newest \in HighlightScores :
       /\ players = Played(n, n, oldest, fill, newest).players
       /\ sessions = {1}
       /\ matches = Played(n, n, oldest, fill, newest).matches
       /\ next_match_id = n + 1
  /\ next_session_id = 2
  /\ now = 0
  /\ request = NoRequest
  /\ response = [status |-> 0, commit |-> "none"]
  /\ before = DB
  /\ backup_scheduler = None
  /\ backup = NotCalled
  /\ database = "sqlite"
  /\ backup_dir = <<>>
  /\ last_backup = NotCreated
  /\ threads = [t \in Threads |-> Idle]
  /\ call = NoCall
  /\ returned = None

NextHighlights == \E query_ok \in BOOLEAN : get_highlights(query_ok)

SpecHighlights == InitHighlights /\ [][NextHighlights]_vars

-----------------------------------------------------------------------------
(* DatabaseManager beside the application: players are added while the    *)
(* database file is a database, backups are created under the names the   *)
(* repository uses, restored, and an old database is migrated             *)

InitFiles ==
  /\ players = [i \in 1..Len(default_players) |-> Player(default_players[i])]
  /\ sessions = {}
  /\ matches = <<>>
  /\ next_session_id = 1
  /\ next_match_id = 1
  /\ now = 0
  /\ request = NoRequest
  /\ response = [status |-> 0, commit |-> "none"]
  /\ before = DB
  /\ backup_scheduler = None
  /\ backup = NotCalled
  /\ database \in {"sqlite", "missing"}
  /\ backup_dir = <<>>
  /\ last_backup = NotCreated
  /\ threads = [t \in Threads |-> Idle]
  /\ call = NoCall
  /\ returned = None

\* the name of the player added, once, between two backups
NewName == TText(<<"M", "i", "k", "l", "a", "s">>)

\* the paths restore_from_backup is given
RestorePaths == {SquashBackupName, PreRestoreName}

NextFiles ==
  \/ /\ database = "sqlite"
     /\ \A id \in DOMAIN players : players[id].name # NewName.s
     /\ create_player(NewName, TRUE)
  \/ \E backup_name \in BackupNames, copy_ok \in BOOLEAN, export_ok \in BOOLEAN :
       create_backup_call(backup_name, copy_ok, export_ok)
  \/ \E backup_path \in RestorePaths, copy_ok \in BOOLEAN, export_ok \in BOOLEAN,
        restore_ok \in BOOLEAN :
       restore_from_backup(backup_path, copy_ok, export_ok, restore_ok)
  \/ \E old_exists \in BOOLEAN, migrate_ok \in BOOLEAN, copy_ok \in BOOLEAN,
        export_ok \in BOOLEAN :
       migrate_existing_database(old_exists, migrate_ok, copy_ok, export_ok)

SpecFiles == InitFiles /\ [][NextFiles]_vars

-----------------------------------------------------------------------------
(* Score updates served side by side: a session of three players is        *)
(* last_backup, then each thread serves one PUT /matches/{id}                  *)

\* the bodies of those requests
ConcurrentBodies ==
  {<<JInt(11), JInt(9), TAbsent>>, <<JInt(0), JInt(11), TAbsent>>,
   <<JInt(-1), JInt(11), TAbsent>>}

NextConcurrent ==
  \/ \E commit_ok \in BOOLEAN : create_session(<<1, 2, 3>>, commit_ok)
  \/ \E t \in Threads, match_id \in 1..MaxMatches, b \in ConcurrentBodies :
       update_match_load(t, match_id, b[1], b[2], b[3])
  \/ \E t \in Threads, commit_ok \in BOOLEAN : update_match_commit(t, commit_ok)

SpecConcurrent == Init /\ [][NextConcurrent]_vars

----------------------------------------------------------------------------
(* Vocabulary of the properties *)

\* the two shapes of a match row
Unscored(m) ==
  /\ m.player1_score = None /\ m.player2_score = None
  /\ m.player1_elo_change = None /\ m.player2_elo_change = None
  /\ m.player1_elo_before = None /\ m.player2_elo_before = None

Scored(m) ==
  /\ m.player1_score # None /\ m.player2_score # None
  /\ m.player1_elo_change # None /\ m.player2_elo_change # None
  /\ m.player1_elo_before # None /\ m.player2_elo_before # None

\* the delta a match row stores for player p (0 when it stores none)
DeltaFor(m, p) ==
  (IF m.player1_id = p /\ m.player1_elo_change # None
   THEN Val(m.player1_elo_change) ELSE 0)
  + (IF m.player2_id = p /\ m.player2_elo_change # None
     THEN Val(m.player2_elo_change) ELSE 0)

\* the sum of the deltas that the completed matches among ids store for p
RECURSIVE SumDeltas(_, _, _)
SumDeltas(table, ids, p) ==
  IF ids = {} THEN 0
  ELSE LET id == CHOOSE i \in ids : TRUE
       IN  (IF is_completed(table[id]) THEN DeltaFor(table[id], p) ELSE 0)
           + SumDeltas(table, ids \ {id}, p)

Rating(ps, p) == ps[p].elo_rating

Is4xx(status) == status \in 400..499

Is5xx(status) == status \in 500..599

\* the last request was a PUT /matches/{id} for a match that existed
PutOnMatch == request.op = "update_match" /\ request.id \in DOMAIN before.matches

\* ... carrying both score keys
PutWithScores == PutOnMatch /\ HasKey(request.player1_score) /\ HasKey(request.player2_score)

\* ... whose scores passed the validation
PutValidScores ==
  /\ PutWithScores
  /\ IsInt(request.player1_score) /\ IsInt(request.player2_score)
  /\ request.player1_score.v >= 0 /\ request.player2_score.v >= 0

----------------------------------------------------------------------------
(* C1: after any sequence of successful API operations every player's      *)
(* rating equals 1000 plus the sum of the deltas stored for that player on *)
(* the existing completed matches that reference the player.               *)
C1_RatingIsSumOfDeltas ==
  \A p \in DOMAIN players :
    Rating(players, p) = 1000 + SumDeltas(matches, DOMAIN matches, p)

(* C2: a PUT /matches/{id} that carries exactly one of player1_score and   *)
(* player2_score is rejected with a 4xx status and changes neither the     *)
(* match row nor any rating, whether the match was UNSCORED or SCORED.     *)
(* (Stated for the requests that met no persistence error.)                *)
C2_OneScoreIsRejected ==
  (/\ PutOnMatch
   /\ HasKey(request.player1_score) # HasKey(request.player2_score)
   /\ response.commit # "failed")
    => /\ Is4xx(response.status)
       /\ matches = before.matches
       /\ players = before.players

(* C3: scoring a match with valid scores (a, b) and then, with no other    *)
(* request in between, scoring it again with the same (a, b) leaves every  *)
(* rating and the match's stored deltas as they were after the first       *)
(* application.  (The match row before the request was completed at the    *)
(* previous tick with the request's scores: the previous request was that  *)
(* first application.)                                                      *)
C3_Case ==
  /\ PutValidScores
  /\ response.status = 200
  /\ before.matches[request.id].completed_at = Some(now - 1)
  /\ before.matches[request.id].player1_score = Some(request.player1_score.v)
  /\ before.matches[request.id].player2_score = Some(request.player2_score.v)

C3_SameScoresAgain ==
  C3_Case =>
    /\ \A p \in DOMAIN players : Rating(players, p) = Rating(before.players, p)
    /\ matches[request.id].player1_elo_change = before.matches[request.id].player1_elo_change
    /\ matches[request.id].player2_elo_change = before.matches[request.id].player2_elo_change

C3_Witness ==
  /\ C3_Case
  /\ Val(matches[request.id].player1_elo_change) # 0
  /\ Val(matches[request.id].player2_elo_change) # 0

(* C4: when a SCORED match is re-scored with both scores, its old deltas   *)
(* are subtracted from the two live ratings before the new deltas are      *)
(* computed: the stored before-snapshots are the live ratings minus this   *)
(* match's old deltas, the new deltas are computed on them, and the new    *)
(* ratings are the snapshots plus the new deltas, whatever happened to     *)
(* other matches in between.                                               *)
C4_Case ==
  /\ PutValidScores
  /\ response.status = 200
  /\ Scored(before.matches[request.id])

C4_RescoreRevertsFirst ==
  C4_Case =>
    LET old == before.matches[request.id]
        new == matches[request.id]
        base1 == Rating(before.players, old.player1_id) - Val(old.player1_elo_change)
        base2 == Rating(before.players, old.player2_id) - Val(old.player2_elo_change)
        deltas == calculate_elo_changes(base1, base2, request.player1_score.v,
                                        request.player2_score.v)
    IN  /\ new.player1_elo_before = Some(base1)
        /\ new.player2_elo_before = Some(base2)
        /\ new.player1_elo_change = Some(deltas[1])
        /\ new.player2_elo_change = Some(deltas[2])
        /\ Rating(players, old.player1_id) = base1 + deltas[1]
        /\ Rating(players, old.player2_id) = base2 + deltas[2]

\* a re-score after another match of one of the players was scored in
\* between, so that the snapshot differs from the one of the first scoring
C4_Witness ==
  /\ C4_Case
  /\ \E other \in DOMAIN matches \ {request.id} :
       /\ Scored(matches[other])
       /\ Val(matches[other].completed_at) >
            Val(before.matches[request.id].completed_at)
  /\ matches[request.id].player1_elo_before #
       before.matches[request.id].player1_elo_before
  /\ Val(before.matches[request.id].player2_elo_change) # 0

(* C5: DELETE /sessions/{id} removes the session and every match of it and *)
(* lowers each player's rating by exactly the sum of the deltas that the   *)
(* session's completed matches stored for that player (so a player without *)
(* a completed match in the session keeps the rating).                     *)
C5_Case ==
  /\ request.op = "delete_session"
  /\ request.id \in before.sessions
  /\ response.status = 200

MatchesOfSession(table, session_id) ==
  {id \in DOMAIN table : table[id].session_id = session_id}

C5_DeleteSessionReverts ==
  C5_Case =>
    /\ request.id \notin sessions
    /\ MatchesOfSession(matches, request.id) = {}
    /\ \A p \in DOMAIN players :
         Rating(players, p) =
           Rating(before.players, p)
             - SumDeltas(before.matches, MatchesOfSession(before.matches, request.id), p)

\* a session with a completed match that moved the ratings, and a player
\* who has no completed match in it
C5_Witness ==
  /\ C5_Case
  /\ \E id \in MatchesOfSession(before.matches, request.id) :
       /\ Scored(before.matches[id])
       /\ Val(before.matches[id].player1_elo_change) # 0
       /\ Val(before.matches[id].player2_elo_change) # 0
  /\ \E p \in DOMAIN players :
       /\ \A id \in MatchesOfSession(before.matches, request.id) :
            is_completed(before.matches[id]) =>
              p \notin {before.matches[id].player1_id, before.matches[id].player2_id}
       /\ \E id \in MatchesOfSession(before.matches, request.id) :
            p \in {before.matches[id].player1_id, before.matches[id].player2_id}

(* C6: DELETE /matches/{id} on a SCORED match lowers each of its two       *)
(* players' ratings by exactly the match's stored delta and removes the    *)
(* match; on an UNSCORED match it removes the match, leaves every rating   *)
(* unchanged and is answered as a success.  (Stated for the requests that  *)
(* met no persistence error.)                                              *)
C6_Case ==
  /\ request.op = "delete_match"
  /\ request.id \in DOMAIN before.matches
  /\ response.commit # "failed"

C6_DeleteMatchReverts ==
  C6_Case =>
    LET m == before.matches[request.id]
    IN  /\ Scored(m) =>
             /\ response.status = 200
             /\ request.id \notin DOMAIN matches
             /\ \A p \in DOMAIN players :
                  Rating(players, p) = Rating(before.players, p) - DeltaFor(m, p)
        /\ Unscored(m) =>
             /\ response.status = 200
             /\ request.id \notin DOMAIN matches
             /\ \A p \in DOMAIN players :
                  Rating(players, p) = Rating(before.players, p)

C6_Witness ==
  /\ C6_Case
  /\ Scored(before.matches[request.id])
  /\ Val(before.matches[request.id].player1_elo_change) # 0
  /\ Val(before.matches[request.id].player2_elo_change) # 0

(* C7: in every reachable state each match is UNSCORED (both scores, both  *)
(* deltas and both before-snapshots absent) or SCORED (all six present).   *)
C7_MatchShapes ==
  \A id \in DOMAIN matches : Unscored(matches[id]) \/ Scored(matches[id])

(* C8: a PUT /matches/{id} that carries both scores, one of them negative  *)
(* or not an integer, is rejected with a 4xx status, and afterwards the    *)
(* match rows and every rating are as before the request, also when the    *)
(* match was SCORED (the reversal done before the validation is not        *)
(* persisted).                                                             *)
C8_Case ==
  /\ PutWithScores
  /\ \/ ~IsInt(request.player1_score) \/ ~IsInt(request.player2_score)
     \/ request.player1_score.v < 0 \/ request.player2_score.v < 0

C9_Case ==
  /\ request.op = "create_match"
  /\ request.session_id \in before.sessions
  /\ request.player1_id # request.player2_id
  /\ request.player1_id \in DOMAIN before.players
  /\ request.player2_id \in DOMAIN before.players
  /\ response.commit # "failed"

C9_CreateMatchScores ==
  C9_Case =>
    LET p1 == request.player1_id
        p2 == request.player2_id
        r1 == Rating(before.players, p1)
        r2 == Rating(before.players, p2)
        created == DOMAIN matches \ DOMAIN before.matches
    IN  /\ (IsInt(request.player1_score) /\ IsInt(request.player2_score)) =>
             LET deltas == calculate_elo_changes(r1, r2, request.player1_score.v,
                                                 request.player2_score.v)
             IN  /\ response.status = 201
                 /\ \E id \in created :
                      /\ Scored(matches[id])
                      /\ matches[id].player1_elo_before = Some(r1)
                      /\ matches[id].player2_elo_before = Some(r2)
                      /\ matches[id].player1_elo_change = Some(deltas[1])
                      /\ matches[id].player2_elo_change = Some(deltas[2])
                 /\ Rating(players, p1) = r1 + deltas[1]
                 /\ Rating(players, p2) = r2 + deltas[2]
        /\ (~NotNone(request.player1_score) /\ ~NotNone(request.player2_score)) =>
             /\ response.status = 201
             /\ \E id \in created : Unscored(matches[id])

(* C10: when the commit of a session creation, a score update, a match     *)
(* deletion or a session deletion fails, the request is answered with a    *)
(* 5xx status and the stored rows are those before the request.            *)
C10_Case ==
  /\ request.op \in {"create_session", "update_match", "delete_match", "delete_session"}
  /\ response.commit = "failed"

C10_FailedCommitIsAtomic ==
  C10_Case =>
    /\ Is5xx(response.status)
    /\ players = before.players
    /\ sessions = before.sessions
    /\ matches = before.matches

\* the failed commit of a re-score: the working copy held reverted and
\* re-applied ratings and a changed match row
C10_Witness ==
  /\ C10_Case
  /\ PutValidScores
  /\ Scored(before.matches[request.id])
  /\ Val(before.matches[request.id].player1_elo_change) # 0
  /\ before.matches[request.id].player1_score # Some(request.player1_score.v)

(* C11: once a match has both scores it has both scores in every later    *)
(* state until it is deleted: no request (PUT with scores, with notes      *)
(* only, with null scores) moves a match from SCORED back to UNSCORED.     *)
C11_ScoredStaysScored ==
  \A id \in DOMAIN before.matches \cap DOMAIN matches :
    is_completed(before.matches[id]) => is_completed(matches[id])

\* a PUT with a null score, and an accepted PUT, on a completed match
C11_Witness ==
  /\ PutOnMatch
  /\ is_completed(before.matches[request.id])
  /\ \/ request.player1_score = JNull
     \/ response.status = 200 /\ ~HasKey(request.player1_score)
     \/ response.status = 200 /\ PutValidScores /\ request.player2_score.v = 0

(* C12: POST /sessions with N >= 2 distinct existing player ids creates   *)
(* one session with exactly N*(N-1)/2 matches, exactly one for every       *)
(* unordered pair of the given players, each between two different players *)
(* and each UNSCORED; so a created session never has zero matches.         *)
(* (Acceptance is stated for the requests that met no persistence error.)  *)
ValidPlayerIds(ids, ps) ==
  /\ Len(ids) >= 2
  /\ \A i \in DOMAIN ids : ids[i] \in DOMAIN ps
  /\ \A i, j \in DOMAIN ids : i # j => ids[i] # ids[j]

C12_Case == request.op = "create_session" /\ response.status = 200

C12_SessionHasAllPairs ==
  /\ (/\ request.op = "create_session"
      /\ ValidPlayerIds(request.player_ids, before.players)
      /\ response.commit # "failed") => response.status = 200
  /\ C12_Case =>
       LET ids == request.player_ids
           N == Len(ids)
           created == DOMAIN matches \ DOMAIN before.matches
           new_sessions == sessions \ before.sessions
       IN  /\ Cardinality(new_sessions) = 1
           /\ 2 * Cardinality(created) = N * (N - 1)
           /\ created # {}
           /\ \A i, j \in 1..N : i < j =>
                Cardinality({id \in created :
                               {matches[id].player1_id, matches[id].player2_id}
                                 = {ids[i], ids[j]}}) = 1
           /\ \A id \in created :
                /\ matches[id].session_id \in new_sessions
                /\ matches[id].player1_id # matches[id].player2_id
                /\ Unscored(matches[id])

C12_Witness == C12_Case /\ Len(request.player_ids) = 3

(* C13: POST /sessions is rejected with a 4xx status, and creates no       *)
(* session and no match, when fewer than 2 player ids are given, when the  *)
(* list has a duplicate id, or when an id names no player; the ids of      *)
(* soft-deleted players are accepted.                                      *)
C13_Case ==
  /\ request.op = "create_session"
  /\ ~ValidPlayerIds(request.player_ids, before.players)

C13_BadPlayerIdsRejected ==
  /\ C13_Case =>
       /\ Is4xx(response.status)
       /\ sessions = before.sessions
       /\ matches = before.matches
  /\ (/\ request.op = "create_session"
      /\ ValidPlayerIds(request.player_ids, before.players)
      /\ \E i \in DOMAIN request.player_ids :
           ~before.players[request.player_ids[i]].active
      /\ response.commit # "failed") => response.status = 200

\* a list with a duplicate id, sent while player 1 is soft-deleted
C13_Witness ==
  /\ C13_Case
  /\ Len(request.player_ids) >= 2
  /\ \A i \in DOMAIN request.player_ids : request.player_ids[i] \in DOMAIN players
  /\ \E p \in DOMAIN players : ~players[p].active

\* a session created with a soft-deleted player
C13_InactiveAccepted ==
  /\ request.op = "create_session"
  /\ response.status = 200
  /\ \E i \in DOMAIN request.player_ids :
       ~before.players[request.player_ids[i]].active

(* C14: in every reachable state every stored match references two         *)
(* different players: session creation never produces a self-pair, and     *)
(* POST /matches with player1_id equal to player2_id is rejected with 400  *)
(* and stores nothing.                                                     *)
C14_Case ==
  /\ request.op = "create_match"
  /\ request.player1_id = request.player2_id

C14_DifferentPlayers ==
  /\ \A id \in DOMAIN matches : matches[id].player1_id # matches[id].player2_id
  /\ C14_Case =>
       /\ response.status = 400
       /\ matches = before.matches
       /\ players = before.players

\* the request names an existing session and an existing player twice
C14_Witness ==
  /\ C14_Case
  /\ request.session_id \in sessions
  /\ request.player1_id \in DOMAIN players
  /\ matches # <<>>

(* C15: for every completed match the winner is player1 exactly when      *)
(* player1_score > player2_score, player2 exactly when player2_score >     *)
(* player1_score, and absent exactly when the scores are equal, also after *)
(* a re-score that turns a win into a tie or swaps the winner.             *)
C15_WinnerFollowsScores ==
  \A id \in DOMAIN matches :
    is_completed(matches[id]) =>
      LET m == matches[id]
          s1 == Val(m.player1_score)
          s2 == Val(m.player2_score)
      IN  /\ (m.winner_id = Some(m.player1_id)) <=> (s1 > s2)
          /\ (m.winner_id = Some(m.player2_id)) <=> (s2 > s1)
          /\ (m.winner_id = None) <=> (s1 = s2)

\* a re-score that turned a win into a tie
C15_Witness ==
  /\ PutValidScores
  /\ response.status = 200
  /\ before.matches[request.id].winner_id # None
  /\ request.player1_score.v = request.player2_score.v
  /\ is_completed(matches[request.id])

(* C16: create player, soft-delete player, create session, create match   *)
(* and every GET view (players, sessions, leaderboard, highlights, health) *)
(* leave every player's rating unchanged: ratings change only in           *)
(* PUT /matches/{id}, DELETE /matches/{id} and DELETE /sessions/{id}.      *)
FrameOps ==
  {"create_player", "delete_player", "create_session", "create_match",
   "get_players", "get_sessions", "get_leaderboard", "get_highlights",
   "health_check"}

RatingsChanged ==
  \E p \in DOMAIN before.players : Rating(players, p) # Rating(before.players, p)

C17_Case ==
  /\ PutValidScores
  /\ response.status = 200
  /\ request.player1_score.v = 11 /\ request.player2_score.v = 9
  /\ Unscored(before.matches[request.id])
  /\ Rating(before.players, before.matches[request.id].player1_id) = 1000
  /\ Rating(before.players, before.matches[request.id].player2_id) = 1000

C17_Scoring11to9 ==
  C17_Case =>
    LET m == matches[request.id]
        body == update_match_response(DB, request.id)
    IN  /\ m.player1_elo_change # None /\ Val(m.player1_elo_change) > 0
        /\ m.player2_elo_change # None /\ Val(m.player2_elo_change) < 0
        /\ Rating(players, m.player1_id) = 1000 + Val(m.player1_elo_change)
        /\ Rating(players, m.player2_id) = 1000 + Val(m.player2_elo_change)
        /\ m.winner_id = Some(m.player1_id)
        /\ body.match.player1_score = Some(11)
        /\ body.match.player2_score = Some(9)
        /\ body.elo_changes # None
        /\ Val(body.elo_changes).player1.elo_before = Some(1000)
        /\ Val(body.elo_changes).player1.elo_change = m.player1_elo_change
        /\ Val(body.elo_changes).player1.elo_after = Rating(players, m.player1_id)
        /\ Val(body.elo_changes).player2.elo_before = Some(1000)
        /\ Val(body.elo_changes).player2.elo_change = m.player2_elo_change
        /\ Val(body.elo_changes).player2.elo_after = Rating(players, m.player2_id)

C17_Witness == C17_Case /\ Rating(players, matches[request.id].player1_id) > 1000

(* C18: calculate_elo_changes(1000, 1000, 11, 0) returns (24, -24): the    *)
(* multiplier is 1.5, each expectation is 0.5, the performances are 1.0    *)
(* and 0.0, and the deltas are the products truncated toward zero.         *)
C18_Case ==
  /\ returned # None
  /\ call = [elo1 |-> 1000, elo2 |-> 1000, score1 |-> 11, score2 |-> 0]

C18_Blowout ==
  C18_Case =>
    LET r == Val(returned)
    IN  /\ r.changes = <<24, -24>>
        /\ 2 * r.diff_multiplier[1] = 3 * r.diff_multiplier[2]
        /\ 2 * r.expected1 = Scale /\ 2 * r.expected2 = Scale
        /\ r.actual[1] = r.actual[3] /\ r.actual[2] = 0
        /\ r.changes[1] = TruncDiv(K * 3 * 1, 2 * 2)
        /\ r.changes[2] = TruncDiv(K * 3 * (-1), 2 * 2)

C18_Witness == C18_Case /\ Val(returned).changes[1] > 0

(* C19: when max(score1, score2) > 0 the multiplier lies in [0.5, 1.5], is *)
(* 1.5 exactly when the lower score is 0 and 0.5 exactly when the scores   *)
(* are equal; when both scores are 0 the multiplier is 1.0, both           *)
(* performances are 0.5, nothing is divided by zero, and equal ratings     *)
(* give the deltas (0, 0).                                                 *)
Min(a, b) == IF a < b THEN a ELSE b

C19_MultiplierRange ==
  returned # None =>
    LET r == Val(returned)
        num == r.diff_multiplier[1]
        den == r.diff_multiplier[2]
    IN  /\ den > 0 /\ r.actual[3] > 0
        /\ Max(call.score1, call.score2) > 0 =>
             /\ 2 * num >= den /\ 2 * num <= 3 * den
             /\ (2 * num = 3 * den) <=> (Min(call.score1, call.score2) = 0)
             /\ (2 * num = den) <=> (call.score1 = call.score2)
        /\ Max(call.score1, call.score2) = 0 =>
             /\ num = den
             /\ 2 * r.actual[1] = r.actual[3] /\ 2 * r.actual[2] = r.actual[3]
             /\ call.elo1 = call.elo2 => r.changes = <<0, 0>>

C19_Witness ==
  /\ returned # None
  /\ call.score1 = 0 /\ call.score2 = 0 /\ call.elo1 = call.elo2
  /\ Val(returned).changes = <<0, 0>>

C19_WitnessRange == returned # None /\ call.score1 = 3 /\ call.score2 = 7

(* C20: in each leaderboard entry matches_played counts all of the         *)
(* player's completed matches, ties included, wins counts the completed    *)
(* matches the player won, and total_points is 3 per win, 1 per loss and 0 *)
(* per tied match.                                                         *)
TiesOf(db, player_id) ==
  {i \in all_matches(db, player_id) : db.matches[i].winner_id = None}

WinsOf(db, player_id) ==
  {i \in all_matches(db, player_id) : db.matches[i].winner_id = Some(player_id)}

LossesOf(db, player_id) ==
  (all_matches(db, player_id) \ WinsOf(db, player_id)) \ TiesOf(db, player_id)

C20_Case == request.op = "get_leaderboard" /\ response.status = 200

C20_LeaderboardPoints ==
  C20_Case =>
    \A k \in DOMAIN leaderboard(DB) :
      LET entry == leaderboard(DB)[k]
      IN  /\ entry.matches_played = Cardinality(all_matches(DB, entry.id))
          /\ entry.wins = Cardinality(WinsOf(DB, entry.id))
          /\ entry.total_points = 3 * Cardinality(WinsOf(DB, entry.id))
                                  + 1 * Cardinality(LossesOf(DB, entry.id))
                                  + 0 * Cardinality(TiesOf(DB, entry.id))

\* the part of C20 the code does satisfy: the two counts, and the points of
\* the players who have no tied match
C20_CountsAndUntiedPoints ==
  C20_Case =>
    \A k \in DOMAIN leaderboard(DB) :
      LET entry == leaderboard(DB)[k]
      IN  /\ entry.matches_played = Cardinality(all_matches(DB, entry.id))
          /\ entry.wins = Cardinality(WinsOf(DB, entry.id))
          /\ TiesOf(DB, entry.id) = {} =>
               entry.total_points = 3 * Cardinality(WinsOf(DB, entry.id))
                                    + Cardinality(LossesOf(DB, entry.id))

C20_TieEarnsAPoint ==
  /\ C20_Case
  /\ \E k \in DOMAIN leaderboard(DB) :
       /\ TiesOf(DB, leaderboard(DB)[k].id) # {}
       /\ leaderboard(DB)[k].matches_played = 1
       /\ leaderboard(DB)[k].total_points = 1

(* C21: in every reachable state the leaderboard contains exactly the      *)
(* players that are active and are player1 or player2 of at least one      *)
(* completed match, each once: an active player without a completed match  *)
(* is left out, and so is a soft-deleted player whatever they played.      *)
OnLeaderboard(db) == {leaderboard(db)[k].id : k \in DOMAIN leaderboard(db)}

PlayedCompleted(db, p) ==
  \E i \in DOMAIN db.matches :
    /\ db.matches[i].player1_id = p \/ db.matches[i].player2_id = p
    /\ db.matches[i].player1_score # None /\ db.matches[i].player2_score # None

C21_LeaderboardMembers ==
  /\ OnLeaderboard(DB) = {p \in DOMAIN players : players[p].active /\ PlayedCompleted(DB, p)}
  /\ Len(leaderboard(DB)) = Cardinality(OnLeaderboard(DB))

\* a leaderboard is served while a soft-deleted player has a completed match
\* and an active player has none
C21_Witness ==
  /\ request.op = "get_leaderboard" /\ response.status = 200
  /\ \E p \in DOMAIN players : ~players[p].active /\ PlayedCompleted(DB, p)
  /\ \E p \in DOMAIN players : players[p].active /\ ~PlayedCompleted(DB, p)
  /\ leaderboard(DB) # <<>>

(* C22: POST /players with a blank (empty or whitespace-only) name, or     *)
(* with a name already held by any player row, a soft-deleted one          *)
(* included, returns 400 and creates nothing; otherwise it creates an      *)
(* active player rated 1000 that then appears in GET /players. In every    *)
(* reachable state no two player rows share a name.  The first two parts   *)
(* are stated for the requests that met no persistence error.              *)
Blank(s) == \A i \in DOMAIN s : s[i] = Space

NameHeld(ps, name) == \E i \in DOMAIN ps : ps[i].name = name

C22_Case ==
  /\ request.op = "create_player"
  /\ request.name.kind = "text"
  /\ response.commit # "failed"

C22_CreatePlayer ==
  /\ \A i, j \in DOMAIN players : i # j => players[i].name # players[j].name
  /\ C22_Case =>
       IF Blank(request.name.s) \/ NameHeld(before.players, Strip(request.name.s))
       THEN response.status = 400 /\ DB = before
       ELSE /\ response.status = 201
            /\ players = Append(before.players,
                                [name |-> Strip(request.name.s),
                                 elo_rating |-> 1000, active |-> TRUE])
            /\ Len(players) \in active_players(players)
            /\ matches = before.matches /\ sessions = before.sessions

\* a player was created from a name with spaces around it
C22_Witness ==
  /\ C22_Case /\ response.status = 201
  /\ Len(players) = Len(before.players) + 1
  /\ request.name.s # players[Len(players)].name

\* the name of a soft-deleted player was refused
C22_WitnessSoftDeleted ==
  /\ C22_Case /\ response.status = 400
  /\ \E i \in DOMAIN before.players :
       ~before.players[i].active /\ before.players[i].name = request.name.s

\* a blank name was refused
C22_WitnessBlank ==
  C22_Case /\ response.status = 400 /\ Blank(request.name.s) /\ request.name.s # <<>>

(* C23: DELETE /players/{id} only sets the player's active flag to false:  *)
(* the player row, its rating, and every match and delta that references   *)
(* it stay as they were, and no operation ever removes a player row;       *)
(* afterwards the player is absent from GET /players.                      *)
C23_Case == request.op = "delete_player" /\ response.status = 200

C23_SoftDelete ==
  /\ Len(players) >= Len(before.players)
  /\ \A i \in DOMAIN before.players : players[i].name = before.players[i].name
  /\ C23_Case =>
       /\ request.id \in DOMAIN before.players
       /\ players = [before.players EXCEPT ![request.id].active = FALSE]
       /\ Rating(players, request.id) = Rating(before.players, request.id)
       /\ matches = before.matches
       /\ sessions = before.sessions
       /\ request.id \notin active_players(players)
  /\ request.op = "delete_player" /\ response.status # 200 => DB = before

\* the soft-deleted player was active and has a scored match with deltas
C23_Witness ==
  /\ C23_Case
  /\ before.players[request.id].active
  /\ \E i \in DOMAIN matches :
       /\ matches[i].player1_id = request.id
       /\ Scored(matches[i])
       /\ Val(matches[i].player1_elo_change) # 0

(* C24: in PUT /matches/{id} the backup trigger runs only after the        *)
(* transaction has been committed, and whether the trigger succeeds,       *)
(* creates no backup, or raises, the committed match and rating state and  *)
(* the answer are the same: those of the request without a trigger.        *)
C24_Case == request.op = "update_match" /\ backup.by = "update_match"

\* the rows a PUT /matches/{id} request commits, read off the request
C24_Committed ==
  LET old == before.matches[request.id]
      has_scores == HasKey(request.player1_score) /\ HasKey(request.player2_score)
      reverted == IF Scored(old) THEN revert_elo_changes(before.players, old)
                  ELSE before.players
      scored == update_scores(reverted, old, request.player1_score.v,
                              request.player2_score.v, now)
      ps == IF has_scores THEN scored.players ELSE reverted
      m == IF has_scores THEN scored.match ELSE old
  IN  [players |-> ps, sessions |-> before.sessions,
       matches |-> [before.matches EXCEPT ![request.id] =
                      IF HasKey(request.notes)
                      THEN [m EXCEPT !.notes = NotesOf(request.notes)] ELSE m]]

C24_BackupAfterCommit ==
  /\ backup.by = "update_match" => request.op = "update_match" /\ response.commit = "done"
  /\ C24_Case =>
       /\ response = [status |-> 200, commit |-> "done"]
       /\ DB = C24_Committed

\* a scoring request whose backup attempt raised
C24_Witness ==
  /\ C24_Case /\ backup.attempted /\ backup.outcome \in {"raised", "escaped"}
  /\ PutValidScores /\ Scored(matches[request.id])

\* a scoring request whose backup was last_backup, and one whose backup was not
C24_WitnessCreated == C24_Case /\ backup.attempted /\ backup.outcome = "created"

C24_WitnessNone == C24_Case /\ backup.attempted /\ backup.outcome = "none"

C24_WitnessNotDue == C24_Case /\ ~backup.attempted

(* C25: the highlights view reports as biggest gain the maximum delta, and *)
(* as biggest loss the minimum delta, over both sides of the (at most 10)  *)
(* most recently completed matches taken in completion-time-descending     *)
(* order; among equal values the one met first in that order (player1      *)
(* before player2 within a match) is the one reported.                     *)

\* the positions <<k, side>> of the deltas of the matches at the places ks
\* of the list of recent matches
Sides(ks) == ks \X {1, 2}

Earlier(pos, other) == pos[1] < other[1] \/ (pos[1] = other[1] /\ pos[2] <= other[2])

\* entry reports the delta at the first of the positions with the greatest
\* (sign = 1) or the least (sign = -1) delta of deltas; nothing is reported
\* when there is no position
Reports(db, recent, entry, positions, sign) ==
  LET deltas == [pos \in positions |-> side_entry(db, recent[pos[1]], pos[2]).elo_change]
  IN  IF positions = {} THEN entry = None
      ELSE /\ entry # None
           /\ \E pos \in positions :
                /\ \A other \in positions : sign * deltas[pos] >= sign * deltas[other]
                /\ \A other \in positions :
                     deltas[other] = deltas[pos] => Earlier(pos, other)
                /\ Val(entry) = side_entry(db, recent[pos[1]], pos[2])

C25_Case == request.op = "get_highlights" /\ response.status = 200

\* the most recent completed matches by their definition: no completed match
\* outside the list was completed after one inside it
C25_RecentAreLatest ==
  LET recent == recent_matches(DB)
      listed == {recent[k] : k \in DOMAIN recent}
  IN  /\ Len(recent) = Cardinality(listed)
      /\ listed \subseteq completed_matches(DB)
      /\ Len(recent) = IF Cardinality(completed_matches(DB)) < 10
                       THEN Cardinality(completed_matches(DB)) ELSE 10
      /\ \A k \in DOMAIN recent : \A j \in completed_matches(DB) \ listed :
           Val(matches[j].completed_at) <= Val(matches[recent[k]].completed_at)
      /\ \A k \in DOMAIN recent : \A l \in DOMAIN recent :
           k < l => Val(matches[recent[k]].completed_at) >= Val(matches[recent[l]].completed_at)

\* the claim as stated: every recent match counts
C25_BiggestOverAllRecent ==
  C25_Case =>
    LET recent == recent_matches(DB)
        stats == highlights(DB).stats
        all == Sides(DOMAIN recent)
    IN  /\ C25_RecentAreLatest
        /\ all # {} => Reports(DB, recent, stats.biggest_elo_gain, all, 1)
        /\ all # {} => Reports(DB, recent, stats.biggest_elo_loss, all, -1)

\* the claim as the code has it: only the recent matches whose two deltas
\* are both non-zero count, and nothing is reported when there is none
C25_BiggestOverNonZero ==
  C25_Case =>
    LET recent == recent_matches(DB)
        stats == highlights(DB).stats
        counted == Sides({k \in DOMAIN recent : both_truthy(matches[recent[k]])})
    IN  /\ C25_RecentAreLatest
        /\ Reports(DB, recent, stats.biggest_elo_gain, counted, 1)
        /\ Reports(DB, recent, stats.biggest_elo_loss, counted, -1)

\* more than ten completed matches, the greatest delta of all in one that is
\* no longer recent, and the reported gain met twice among the recent ones
C25_Witness ==
  /\ C25_Case
  /\ Cardinality(completed_matches(DB)) > 10
  /\ LET recent == recent_matches(DB)
         gain == highlights(DB).stats.biggest_elo_gain
     IN  /\ gain # None
         /\ \E j \in completed_matches(DB) :
              Val(matches[j].player2_elo_change) > Val(gain).elo_change
         /\ \E k \in DOMAIN recent :
              /\ recent[k] # Val(gain).match_id
              /\ Val(matches[recent[k]].player1_elo_change) = Val(gain).elo_change

\* recent matches without any non-zero delta: nothing is reported
C25_WitnessZero ==
  /\ C25_Case
  /\ recent_matches(DB) # <<>>
  /\ highlights(DB).stats.biggest_elo_gain = None

(* C26: a PUT /matches/{id} request that carries only notes (no score      *)
(* fields) changes only the match's notes: the match's scores, winner,     *)
(* deltas and before-snapshots and every player's rating are unchanged,    *)
(* also when the match is already SCORED and however often it is repeated. *)
C26_Case ==
  /\ PutOnMatch
  /\ ~HasKey(request.player1_score) /\ ~HasKey(request.player2_score)
  /\ HasKey(request.notes)
  /\ response.status = 200

C26_NotesOnlyChangesNotes ==
  C26_Case =>
    /\ players = before.players
    /\ sessions = before.sessions
    /\ matches = [before.matches EXCEPT ![request.id].notes = NotesOf(request.notes)]

\* the part that holds: the match row itself changes in its notes only, and
\* an UNSCORED match leaves the ratings alone
C26_NotesOnlyKeepsMatchRow ==
  C26_Case =>
    /\ matches = [before.matches EXCEPT ![request.id].notes = NotesOf(request.notes)]
    /\ Unscored(before.matches[request.id]) => players = before.players

\* a notes-only request on a SCORED match moved the ratings
C26_RatingsMoved ==
  /\ C26_Case
  /\ Scored(before.matches[request.id])
  /\ players # before.players

(* C27: when two score updates for two different matches that share a     *)
(* player are processed concurrently and both are answered with success,   *)
(* the shared player's final rating includes both matches' deltas: every   *)
(* rating is 1000 plus the stored deltas of the existing completed         *)
(* matches, and neither update is lost.                                    *)
SharePlayer(m1, m2) ==
  {m1.player1_id, m1.player2_id} \cap {m2.player1_id, m2.player2_id} # {}

C27_Case ==
  /\ \A t \in Threads : threads[t].pc = "answered" /\ threads[t].status = 200
  /\ threads[1].match_id # threads[2].match_id
  /\ SharePlayer(matches[threads[1].match_id], matches[threads[2].match_id])

C27_NoLostUpdate ==
  C27_Case =>
    \A p \in DOMAIN players :
      Rating(players, p) = 1000 + SumDeltas(matches, DOMAIN matches, p)

\* both updates succeeded and the shared player's rating holds only one of
\* the two deltas
C27_LostUpdate ==
  /\ C27_Case
  /\ \E p \in DOMAIN players :
       /\ DeltaFor(matches[threads[1].match_id], p) # 0
       /\ DeltaFor(matches[threads[2].match_id], p) # 0
       /\ \E t \in Threads :
            Rating(players, p) = 1000 + DeltaFor(matches[threads[t].match_id], p)

(* C28: for all ratings and all non-negative scores the two deltas of      *)
(* calculate_elo_changes are exact negatives of each other: expected2 is   *)
(* 1 - expected1, the performances add up to 1, both sides use the same    *)
(* multiplier, and truncation toward zero is symmetric in sign; hence a    *)
(* match leaves the sum of its two players' ratings unchanged.             *)
C28_DeltasCancel ==
  returned # None =>
    LET r == Val(returned)
    IN  /\ r.changes[1] + r.changes[2] = 0
        /\ r.expected1 + r.expected2 = Scale
        /\ r.actual[1] + r.actual[2] = r.actual[3]
        /\ r.ratings[1] + r.ratings[2] = call.elo1 + call.elo2
        /\ r.ratings = <<call.elo1 + r.changes[1], call.elo2 + r.changes[2]>>

\* unequal ratings and a product that is not a whole number (6.76 and -6.76)
C28_Witness ==
  /\ returned # None
  /\ call = [elo1 |-> 900, elo2 |-> 1100, score1 |-> 11, score2 |-> 9]
  /\ Val(returned).changes = <<6, -6>>
  /\ Val(returned).ratings = <<906, 1094>>

(* C29: trigger_match_backup counts its calls: for the first 9 calls after *)
(* a reset no backup is attempted; on the 10th call a backup is attempted; *)
(* the counter is reset to 0 only when that backup succeeds, and when it   *)
(* fails or raises the counter is kept, so a backup is attempted again on  *)
(* every following call until one succeeds.                                *)
C29_CountsCalls ==
  backup.called =>
    /\ backup_scheduler # None
    /\ backup.counter_before < 9 =>
         ~backup.attempted /\ Val(backup_scheduler) = backup.counter_before + 1
    /\ backup.counter_before >= 9 =>
         /\ backup.attempted
         /\ backup.outcome = "created" => Val(backup_scheduler) = 0
         /\ backup.outcome # "created" => Val(backup_scheduler) = backup.counter_before + 1

\* a backup that succeeded on a call after the 10th, the earlier attempts
\* having failed
C29_Witness ==
  /\ backup.called /\ backup.attempted
  /\ backup.counter_before > 9
  /\ backup.outcome = "created"
  /\ backup_scheduler = Some(0)

\* the 10th call after a reset, from PUT /matches/{id}, whose backup failed
C29_WitnessTenth ==
  /\ backup.by = "update_match" /\ backup.attempted
  /\ backup.counter_before = 9
  /\ backup.outcome = "none"
  /\ backup_scheduler = Some(10)

\* the 9th call after a reset
C29_WitnessNinth ==
  backup.called /\ backup.counter_before = 8 /\ ~backup.attempted

(* C30: for every backup name passed to create_backup, the names without  *)
(* a .db suffix used by restore_from_backup and migrate_existing_database  *)
(* included, a successful call leaves two distinct files: a full copy of   *)
(* the database at the returned path and a separate JSON dump; the JSON    *)
(* export never overwrites the database copy, so restore_from_backup keeps *)
(* a restorable copy of the pre-restore database.  Stated for the calls    *)
(* whose JSON export met no error.                                         *)
C30_Case == last_backup.called /\ last_backup.path # None /\ last_backup.exported

C30_CopyAndSeparateDump ==
  C30_Case =>
    /\ Val(last_backup.path) \in DOMAIN backup_dir
    /\ backup_dir[Val(last_backup.path)] = [format |-> "sqlite", data |-> last_backup.rows]
    /\ \E other \in DOMAIN backup_dir :
         /\ other # Val(last_backup.path)
         /\ backup_dir[other] = [format |-> "json", data |-> last_backup.rows]

\* the part that holds: the names that end in .db
C30_DbNamesKeepTheCopy ==
  C30_Case /\ last_backup.name \in {SquashBackupName, MatchMilestoneName} =>
    /\ backup_dir[Val(last_backup.path)] = [format |-> "sqlite", data |-> last_backup.rows]
    /\ \E other \in DOMAIN backup_dir :
         /\ other # Val(last_backup.path)
         /\ backup_dir[other] = [format |-> "json", data |-> last_backup.rows]

\* a restore has left a JSON text where the copy of the database it replaced
\* should be
C30_PreRestoreCopyLost ==
  /\ C30_Case
  /\ last_backup.by = "restore_from_backup"
  /\ backup_dir[PreRestoreName].format = "json"
  /\ DB # last_backup.rows

====
